---- MODULE Spec2Model ----
(***************************************************************************)
(* Model of the email-client compatibility pipeline                        *)
(* (server/src/services/emailOptimizer.ts, class EmailOptimizer).          *)
(*                                                                         *)
(* The document tree ($) is an arena: a sequence of nodes in document      *)
(* order, each node naming its parent by index (0 = the document root).    *)
(* A style string is kept as the sequence of its ';'-separated segments    *)
(* (what String.split(';') returns); a segment is a leading-blank flag, a  *)
(* property name (the text before the first ':') and a ','-separated list  *)
(* of values.  None of the substrings the code searches for contains ';',  *)
(* so String.includes is decided segment by segment.                       *)
(***************************************************************************)
EXTENDS Integers, Sequences, FiniteSets, TLC

VARIABLES
    pc,             \* position of the invocation inside optimizeForEmailClients
    run,            \* 1 = first call, 2 = call on the first call's optimizedHtml
    html,           \* the argument of the call: an HTML text, as its tokens
    tree,           \* $ : the shared mutable document tree
    issues,         \* issues: EmailCompatibilityIssue[]
    optimizations,  \* optimizations: string[]
    result,         \* the EmailCompatibilityResult the call returned (or NoResult)
    error,          \* the error the call rejected with (or NoError)
    first,          \* what run 1 was given and returned, kept for run 2
    scoreArg,       \* the issue list handed to calculateCompatibilityScore
    scoreOut,       \* what calculateCompatibilityScore returned for scoreArg
    prevScore,      \* what it returned before the last issue was added
    calls,          \* the invocations in flight at once, each with its own locals
    users,          \* the user table behind prisma.user
    templates,      \* the template table with each template's versions and tags
    reqs,           \* the HTTP requests in flight, each with its position and req.user
    requestCounts,  \* the Map of userRateLimit: user id -> { count, resetTime }
    clock,          \* Date.now()
    credentials     \* whether the process was started with AWS credentials

vars == <<pc, run, html, tree, issues, optimizations, result, error, first,
          scoreArg, scoreOut, prevScore, calls,
          users, templates, reqs, requestCounts, clock, credentials>>

\* the HTTP layer before any request has arrived
NoRequests ==
    /\ users = <<>>
    /\ templates = <<>>
    /\ reqs = <<>>
    /\ requestCounts = <<>>
    /\ clock = 0
    /\ credentials = FALSE

ApiUnchanged == UNCHANGED <<users, templates, reqs, requestCounts, clock, credentials>>

OptimizerUnchanged ==
    UNCHANGED <<pc, run, html, tree, issues, optimizations, result, error, first,
                scoreArg, scoreOut, prevScore, calls>>

----------------------------------------------------------------------------
(* Bounds *)

MaxElems == 2       \* plain content elements of a generated document
MaxStyled == 2      \* styled content elements of a generated document
MaxDepth == 6       \* tables nested one inside the other in a chain document
MaxIssues == 6      \* length of the issue lists handed to the scorer directly
MaxCalls == 2       \* invocations in flight at once

----------------------------------------------------------------------------
(* Strings, attributes and style strings *)

Absent == "undefined"       \* what $el.attr(name) returns for a missing attribute

Falsy(v) == v = Absent \/ v = ""

\* The attributes of an element other than style and class: the set of its
\* <<name, value>> pairs, one pair for each attribute the element has.
NoAttrs == {}

\* $el.attr(name)
Attr(attrs, name) ==
    IF \E p \in attrs : p[1] = name
    THEN (CHOOSE p \in attrs : p[1] = name)[2]
    ELSE Absent

\* $el.attr(name, value)
SetAttr(attrs, name, value) == {p \in attrs : p[1] # name} \cup {<<name, value>>}

NoStyle == <<>>             \* the style attribute is missing (split never yields <<>>)

EmptySeg == [sp |-> FALSE, prop |-> "", val |-> <<>>]

Seg(sp, prop, val) == [sp |-> sp, prop |-> prop, val |-> val]

EmptyString == <<EmptySeg>> \* the string ''

\* The needles the code passes to String.includes, and the vocabulary words
\* of the model that contain each of them as a substring.
WordsWith(needle) ==
    CASE needle = "border-collapse" -> {"border-collapse"}
      [] needle = "padding"         -> {"padding", "padding-left"}
      [] needle = "width"           -> {"width", "max-width"}
      [] needle = "display"         -> {"display"}
      [] needle = "background"      -> {"background", "background-color"}
      [] needle = "font-family"     -> {"font-family", "x-font-family"}
      [] needle = "#000"            -> {"#000"}
      [] needle = "#111"            -> {"#111"}
      [] needle = "#222"            -> {"#222"}
      [] OTHER                      -> {needle}

SegIncludes(seg, needle) ==
    \/ seg.prop \in WordsWith(needle)
    \/ \E j \in 1..Len(seg.val) : seg.val[j] \in WordsWith(needle)

\* style.includes(needle) for a style string given by its segments
Includes(style, needle) == \E i \in 1..Len(style) : SegIncludes(style[i], needle)

\* $el.attr('style') || ''
StyleOrEmpty(style) == IF style = NoStyle THEN EmptyString ELSE style

\* `${style}; prop: val;`
AppendDecl(style, prop, val) ==
    StyleOrEmpty(style) \o <<Seg(TRUE, prop, <<val>>), EmptySeg>>

----------------------------------------------------------------------------
(* The document tree *)

\* An element (or comment) node.  origin records who created the node:
\* "input" for a node the loader built, else the stage that injected it.
Node(tag, parent, style, attrs, text) ==
    [tag |-> tag, parent |-> parent, style |-> style, attrs |-> attrs,
     class |-> <<>>, text |-> text, origin |-> "input"]

Injected(tag, parent, attrs, text, origin) ==
    [tag |-> tag, parent |-> parent, style |-> NoStyle, attrs |-> attrs,
     class |-> <<>>, text |-> text, origin |-> origin]

Range(s) == {s[i] : i \in 1..Len(s)}

IsElement(n) == n.tag # "#comment"

\* $(tag)
Select(t, tag) == {i \in 1..Len(t) : t[i].tag = tag}

RECURSIVE IsDescendant(_, _, _)
IsDescendant(t, j, i) ==
    IF j <= i \/ j = 0 THEN FALSE
    ELSE t[j].parent = i \/ IsDescendant(t, t[j].parent, i)

Subtree(t, i) == {i} \cup {j \in 1..Len(t) : IsDescendant(t, j, i)}

\* The sequence of the members of a set of indices, in document order.
RECURSIVE InOrder(_, _)
InOrder(S, n) ==
    IF n = 0 THEN <<>>
    ELSE IF n \in S THEN Append(InOrder(S, n - 1), n) ELSE InOrder(S, n - 1)

\* selection.remove(): the selected nodes leave the tree with their subtrees.
Remove(t, sel) ==
    LET gone   == UNION {Subtree(t, i) : i \in sel}
        kept   == InOrder((1..Len(t)) \ gone, Len(t))
        pos(k) == Cardinality({m \in 1..k : m \notin gone})
    IN  [n \in 1..Len(kept) |->
            [t[kept[n]] EXCEPT !.parent = IF @ = 0 THEN 0 ELSE pos(@)]]

\* The node becomes the element at index at; what was at at or after moves on.
InsertAt(t, at, node) ==
    LET shift(p) == IF p >= at THEN p + 1 ELSE p
    IN  [n \in 1..(Len(t) + 1) |->
            IF n < at THEN [t[n] EXCEPT !.parent = shift(@)]
            ELSE IF n = at THEN node
            ELSE [t[n - 1] EXCEPT !.parent = shift(@)]]

LastOfSubtree(t, i) ==
    CHOOSE j \in Subtree(t, i) : \A k \in Subtree(t, i) : k <= j

\* $(tag).prepend(node): into every selected element, as its first child.
RECURSIVE PrependTo(_, _, _, _)
PrependTo(t, tag, node, i) ==
    IF i = 0 THEN t
    ELSE IF t[i].tag = tag
         THEN PrependTo(InsertAt(t, i + 1, [node EXCEPT !.parent = i]), tag, node, i - 1)
         ELSE PrependTo(t, tag, node, i - 1)

\* $(tag).append(node): into every selected element, as its last child.
RECURSIVE AppendTo(_, _, _, _)
AppendTo(t, tag, node, i) ==
    IF i = 0 THEN t
    ELSE IF t[i].tag = tag
         THEN AppendTo(InsertAt(t, LastOfSubtree(t, i) + 1, [node EXCEPT !.parent = i]),
                       tag, node, i - 1)
         ELSE AppendTo(t, tag, node, i - 1)

----------------------------------------------------------------------------
(* Diagnostics *)

\* An EmailCompatibilityIssue.  The message is its fixed wording (message)
\* and the number interpolated into it (count, 0 when there is none).
Issue(type, message, count, element) ==
    [type |-> type, message |-> message, count |-> count, element |-> element]

NoElement == ""

Stage(t, is, os) == [tree |-> t, issues |-> is, optimizations |-> os]

\* The concatenation of f(i) for the indices 1..n, in document order.
RECURSIVE FlatMap(_, _)
FlatMap(f, n) == IF n = 0 THEN <<>> ELSE FlatMap(f, n - 1) \o f[n]

----------------------------------------------------------------------------
(* Stage 1: inlineStyles *)

InlineTags == {"table", "td", "tr", "div", "p", "span", "a", "img"}

\* A faulty variant: the default takes the place of the style the element had.
OverwrittenStyle(n) ==
    IF n.tag = "table" /\ ~Includes(StyleOrEmpty(n.style), "border-collapse")
    THEN AppendDecl(EmptyString, "border-collapse", "collapse")
    ELSE IF n.tag = "td" /\ ~Includes(StyleOrEmpty(n.style), "padding")
         THEN AppendDecl(EmptyString, "padding", "0")
         ELSE n.style

InlinedStyle(n) ==
    LET currentStyle == StyleOrEmpty(n.style)
        s1 == IF n.tag = "table" /\ ~Includes(currentStyle, "border-collapse")
              THEN AppendDecl(currentStyle, "border-collapse", "collapse")
              ELSE n.style
    IN  IF n.tag \notin InlineTags THEN n.style
        ELSE IF n.tag = "td" /\ ~Includes(currentStyle, "padding")
             THEN AppendDecl(currentStyle, "padding", "0")
             ELSE s1

\* A faulty variant: one warning for each <style> element.
inlineStylesEach(t, is, os) ==
    LET styleTags == Select(t, "style")
        found     == Cardinality(styleTags) > 0
        t1        == IF found THEN Remove(t, styleTags) ELSE t
    IN  Stage([i \in 1..Len(t1) |->
                  IF IsElement(t1[i]) THEN [t1[i] EXCEPT !.style = InlinedStyle(t1[i])]
                  ELSE t1[i]],
              is \o [k \in 1..Cardinality(styleTags) |->
                        Issue("warning", "Found <style> tags", 1, NoElement)],
              IF found THEN Append(os, "Removed embedded CSS styles") ELSE os)

inlineStyles(t, is, os) ==
    LET styleTags == Select(t, "style")
        found     == Cardinality(styleTags) > 0
        t1        == IF found THEN Remove(t, styleTags) ELSE t
    IN  Stage([i \in 1..Len(t1) |->
                  IF IsElement(t1[i]) THEN [t1[i] EXCEPT !.style = InlinedStyle(t1[i])]
                  ELSE t1[i]],
              IF found
              THEN Append(is, Issue("warning", "Found <style> tags",
                                    Cardinality(styleTags), NoElement))
              ELSE is,
              IF found THEN Append(os, "Removed embedded CSS styles") ELSE os)

----------------------------------------------------------------------------
(* Stage 2: optimizeTableStructure *)

NestedLimit == 3

\* A faulty variant: the table counts itself among its nested tables.
NestedTablesAndSelf(t, i) ==
    Cardinality({j \in Select(t, "table") : j = i \/ IsDescendant(t, j, i)})

\* $table.find('table').length
NestedTables(t, i) ==
    Cardinality({j \in Select(t, "table") : IsDescendant(t, j, i)})

\* A faulty variant: the three attributes are set only where the table has none.
AdditiveTableAttrs(n) ==
    LET Default(attrs, name) ==
            IF Attr(attrs, name) = Absent THEN SetAttr(attrs, name, "0") ELSE attrs
    IN  Default(Default(Default(n.attrs, "cellpadding"), "cellspacing"), "border")

TableAttrs(n) ==
    LET a1 == SetAttr(SetAttr(SetAttr(n.attrs, "cellpadding", "0"), "cellspacing", "0"),
                      "border", "0")
    IN  IF Falsy(Attr(n.attrs, "width"))
           /\ ~(n.style # NoStyle /\ Includes(n.style, "width"))
        THEN SetAttr(a1, "width", "100%")
        ELSE a1

TdAttrs(n) ==
    IF Falsy(Attr(n.attrs, "valign")) THEN SetAttr(n.attrs, "valign", "top") ELSE n.attrs

\* A faulty variant: the warning is given from 3 nested tables on.
EagerNestingIssues(t, i) ==
    IF t[i].tag = "table" /\ NestedTables(t, i) >= NestedLimit
    THEN <<Issue("warning", "Table has nested tables", NestedTables(t, i), "table")>>
    ELSE <<>>

NestingIssues(t, i) ==
    IF t[i].tag = "table" /\ NestedTables(t, i) > NestedLimit
    THEN <<Issue("warning", "Table has nested tables", NestedTables(t, i), "table")>>
    ELSE <<>>

optimizeTableStructure(t, is, os) ==
    Stage([i \in 1..Len(t) |->
              IF t[i].tag = "table" THEN [t[i] EXCEPT !.attrs = TableAttrs(t[i])]
              ELSE IF t[i].tag = "td" THEN [t[i] EXCEPT !.attrs = TdAttrs(t[i])]
              ELSE t[i]],
          is \o FlatMap([i \in 1..Len(t) |-> NestingIssues(t, i)], Len(t)),
          Append(os, "Optimized table structure for email clients"))

----------------------------------------------------------------------------
(* Finding or creating <head> (stages 3, 5 and 7) *)

\* A faulty variant: a missing <head> is not created.
MissingHeadKept(t, origin) == t

\* let $head = $('head'); if ($head.length === 0) $('html').prepend('<head></head>')
EnsureHead(t, origin) ==
    IF Select(t, "head") = {}
    THEN PrependTo(t, "html", Injected("head", 0, NoAttrs, "", origin), Len(t))
    ELSE t

\* $head.append(node)
AppendToHead(t, node) == AppendTo(t, "head", node, Len(t))

----------------------------------------------------------------------------
(* Stage 3: addDarkModeSupport *)

DarkTags == {"p", "div", "span", "td", "h1", "h2", "h3", "h4", "h5", "h6"}

\* $el.addClass(name): the class list never holds a name twice
AddClass(class, name) == IF name \in Range(class) THEN class ELSE Append(class, name)

DarkClass(n) ==
    LET style == StyleOrEmpty(n.style)
    IN  IF n.tag \in DarkTags
           /\ Includes(style, "background")
           /\ (Includes(style, "#000") \/ Includes(style, "#111") \/ Includes(style, "#222"))
        THEN AddClass(n.class, "dark-mode-text")
        ELSE n.class

addDarkModeSupport(t, is, os) ==
    LET t1 == EnsureHead(t, "darkMode")
        t2 == AppendToHead(t1, Injected("style", 0, NoAttrs, "darkModeCSS", "darkMode"))
    IN  Stage([i \in 1..Len(t2) |-> [t2[i] EXCEPT !.class = DarkClass(t2[i])]],
              is,
              Append(os, "Added dark mode support"))

----------------------------------------------------------------------------
(* Stage 4: optimizeImages *)

\* A faulty variant: a missing alt attribute is reported but not set.
ImageNodeWithoutAlt(n) ==
    IF ~Includes(StyleOrEmpty(n.style), "display")
    THEN [n EXCEPT !.style = AppendDecl(StyleOrEmpty(n.style), "display", "block")]
    ELSE n

\* A faulty variant: a missing width is set to 100%, as the table stage does.
ImageNodeWithWidth(n) ==
    LET style == StyleOrEmpty(n.style)
        a1    == IF Falsy(Attr(n.attrs, "alt")) THEN SetAttr(n.attrs, "alt", "") ELSE n.attrs
        a2    == IF Falsy(Attr(n.attrs, "width")) /\ ~Includes(style, "width")
                 THEN SetAttr(a1, "width", "100%")
                 ELSE a1
        s1    == IF ~Includes(style, "display")
                 THEN AppendDecl(style, "display", "block")
                 ELSE n.style
    IN  [n EXCEPT !.attrs = a2, !.style = s1]

ImageNode(n) ==
    LET style == StyleOrEmpty(n.style)
        a1    == IF Falsy(Attr(n.attrs, "alt")) THEN SetAttr(n.attrs, "alt", "") ELSE n.attrs
        s1    == IF ~Includes(style, "display")
                 THEN AppendDecl(style, "display", "block")
                 ELSE n.style
    IN  [n EXCEPT !.attrs = a1, !.style = s1]

ImageIssues(n) ==
    LET style == StyleOrEmpty(n.style)
    IN  (IF Falsy(Attr(n.attrs, "alt"))
         THEN <<Issue("warning", "Image missing alt text", 0, "img")>> ELSE <<>>)
        \o
        (IF Falsy(Attr(n.attrs, "width")) /\ ~Includes(style, "width")
         THEN <<Issue("warning", "Image missing width attribute", 0, "img")>> ELSE <<>>)

\* A faulty variant: the stage leaves no record of itself in optimizations.
UnrecordedImages(t, is, os) ==
    Stage([i \in 1..Len(t) |-> IF t[i].tag = "img" THEN ImageNode(t[i]) ELSE t[i]],
          is \o FlatMap([i \in 1..Len(t) |->
                            IF t[i].tag = "img" THEN ImageIssues(t[i]) ELSE <<>>], Len(t)),
          os)

optimizeImages(t, is, os) ==
    Stage([i \in 1..Len(t) |-> IF t[i].tag = "img" THEN ImageNode(t[i]) ELSE t[i]],
          is \o FlatMap([i \in 1..Len(t) |->
                            IF t[i].tag = "img" THEN ImageIssues(t[i]) ELSE <<>>], Len(t)),
          Append(os, "Optimized images for email clients"))

----------------------------------------------------------------------------
(* Stage 5: addOutlookCompatibility *)

OUTLOOK_SAFE_FONTS ==
    {"Arial", "Helvetica", "Times New Roman", "Courier New", "Verdana", "Georgia",
     "Palatino", "Garamond", "Bookman", "Comic Sans MS", "Trebuchet MS", "Arial Black",
     "Impact"}

\* f.trim().replace(/['"]/g, '') on the font names of the vocabulary
Unquote(font) ==
    CASE font = "'Arial'"    -> "Arial"
      [] font = "\"Georgia\"" -> "Georgia"
      [] font = "'Foo'"      -> "Foo"
      [] OTHER               -> font

\* style.match(/font-family:\s*([^;]+)/): the segments in which the pattern
\* matches (the text 'font-family:' followed by a value that is not empty)
FontSegs(style) ==
    {i \in 1..Len(style) :
        style[i].prop \in WordsWith("font-family") /\ Len(style[i].val) > 0}

FontFixedStyle(style) ==
    LET i     == CHOOSE k \in FontSegs(style) : \A m \in FontSegs(style) : k <= m
        fonts == [j \in 1..Len(style[i].val) |-> Unquote(style[i].val[j])]
        hasOutlookSafeFont == \E j \in 1..Len(fonts) : fonts[j] \in OUTLOOK_SAFE_FONTS
    IN  IF ~Includes(style, "font-family") \/ FontSegs(style) = {} \/ hasOutlookSafeFont
        THEN style
        ELSE [style EXCEPT ![i].val = fonts \o <<"Arial", "sans-serif">>]

FontFixed(n) ==
    IF ~IsElement(n) \/ ~Includes(StyleOrEmpty(n.style), "font-family")
       \/ FontFixedStyle(n.style) = n.style
    THEN n
    ELSE [n EXCEPT !.style = FontFixedStyle(n.style)]

addOutlookCompatibility(t, is, os) ==
    LET t1 == EnsureHead(t, "outlook")
        t2 == AppendToHead(t1, Injected("#comment", 0, NoAttrs, "[if mso]", "outlook"))
    IN  Stage([i \in 1..Len(t2) |-> FontFixed(t2[i])],
              is,
              Append(os, "Added Outlook compatibility fixes"))

----------------------------------------------------------------------------
(* Stage 6: cleanupUnsupportedElements *)

\* A faulty variant: border-collapse is on the allow-list.
WithBorderCollapse ==
    {"background-color", "color", "font-family", "font-size", "font-weight",
     "text-align", "padding", "margin", "border", "width", "height",
     "line-height", "text-decoration", "vertical-align", "display", "border-collapse"}

EMAIL_SAFE_PROPERTIES ==
    {"background-color", "color", "font-family", "font-size", "font-weight",
     "text-align", "padding", "margin", "border", "width", "height",
     "line-height", "text-decoration", "vertical-align", "display"}

\* A faulty variant: the viewport meta tag is not on the list.
WithoutViewport == <<"script", "link[rel=\"stylesheet\"]">>

unsupportedElements == <<"script", "link[rel=\"stylesheet\"]", "meta[name=\"viewport\"]">>

\* $(selector) for the three selectors of unsupportedElements
Matches(t, selector) ==
    CASE selector = "script" -> Select(t, "script")
      [] selector = "link[rel=\"stylesheet\"]" ->
            {i \in Select(t, "link") : Attr(t[i].attrs, "rel") = "stylesheet"}
      [] selector = "meta[name=\"viewport\"]" ->
            {i \in Select(t, "meta") : Attr(t[i].attrs, "name") = "viewport"}

RECURSIVE RemoveUnsupported(_, _, _)
RemoveUnsupported(t, is, k) ==
    IF k > Len(unsupportedElements) THEN [tree |-> t, issues |-> is]
    ELSE LET elements == Matches(t, unsupportedElements[k])
         IN  IF Cardinality(elements) > 0
             THEN RemoveUnsupported(
                      Remove(t, elements),
                      Append(is, Issue("warning", "Removed unsupported elements",
                                       Cardinality(elements), unsupportedElements[k])),
                      k + 1)
             ELSE RemoveUnsupported(t, is, k + 1)

\* style.split(';').map(prop => prop.trim()).filter(Boolean)
Properties(style) ==
    LET trimmed == [i \in 1..Len(style) |-> [style[i] EXCEPT !.sp = FALSE]]
        NotEmpty(seg) == seg.prop # "" \/ Len(seg.val) > 0
    IN  SelectSeq(trimmed, NotEmpty)

\* A faulty variant: nothing is filtered out.
AllProperties(properties) == properties

\* the declarations of the allow-list
CleanedProperties(properties) ==
    LET Safe(seg) == seg.prop # "" /\ seg.prop \in EMAIL_SAFE_PROPERTIES
    IN  SelectSeq(properties, Safe)

\* cleanedProperties.join('; ')
Join(properties) ==
    IF Len(properties) = 0 THEN EmptyString
    ELSE [i \in 1..Len(properties) |-> [properties[i] EXCEPT !.sp = (i > 1)]]

\* if (style): the attribute exists and is not the empty string
Truthy(style) == style # NoStyle /\ style # EmptyString

Dropped(n) ==
    /\ IsElement(n)
    /\ Truthy(n.style)
    /\ Len(CleanedProperties(Properties(n.style))) # Len(Properties(n.style))

\* A faulty variant: the style of every element that has one is written anew.
NormalizedNode(n) ==
    IF IsElement(n) /\ Truthy(n.style)
    THEN [n EXCEPT !.style = Join(CleanedProperties(Properties(n.style)))]
    ELSE n

CleanedNode(n) ==
    IF Dropped(n)
    THEN [n EXCEPT !.style = Join(CleanedProperties(Properties(n.style)))]
    ELSE n

cleanupUnsupportedElements(t, is, os) ==
    LET r  == RemoveUnsupported(t, is, 1)
        t1 == r.tree
    IN  Stage([i \in 1..Len(t1) |-> CleanedNode(t1[i])],
              r.issues \o FlatMap([i \in 1..Len(t1) |->
                    IF Dropped(t1[i])
                    THEN <<Issue("warning", "Removed unsupported CSS properties", 0,
                                 t1[i].tag)>>
                    ELSE <<>>], Len(t1)),
              Append(os, "Cleaned up unsupported elements and styles"))

----------------------------------------------------------------------------
(* Stage 7: addEmailMetaTags *)

MetaNode(attr, value) ==
    Injected("meta", 0, {<<attr, value>>}, "", "meta")

metaTags ==
    <<MetaNode("charset", "UTF-8"),
      MetaNode("http-equiv", "Content-Type"),
      MetaNode("name", "x-apple-disable-message-reformatting"),
      MetaNode("name", "format-detection")>>

RECURSIVE AppendMetaTags(_, _)
AppendMetaTags(t, k) ==
    IF k > Len(metaTags) THEN t
    ELSE AppendMetaTags(AppendToHead(t, metaTags[k]), k + 1)

addEmailMetaTags(t, is, os) ==
    Stage(AppendMetaTags(EnsureHead(t, "meta"), 1),
          is,
          Append(os, "Added essential email meta tags"))

----------------------------------------------------------------------------
(* Stage 8: validateEmailStructure *)

\* $('img:not([alt])')
ImagesWithoutAlt(t) == {i \in Select(t, "img") : Attr(t[i].attrs, "alt") = Absent}

\* A faulty variant: a missing <body> is not reported.
ValidatedWithoutBody(t, is, os) ==
    Stage(t,
          is
          \o (IF Cardinality(Select(t, "html")) = 0
              THEN <<Issue("error", "Missing HTML document structure", 0, NoElement)>>
              ELSE <<>>)
          \o (IF Cardinality(Select(t, "head")) = 0
              THEN <<Issue("error", "Missing HEAD section", 0, NoElement)>>
              ELSE <<>>),
          os)

validateEmailStructure(t, is, os) ==
    Stage(t,
          is
          \o (IF Cardinality(Select(t, "html")) = 0
              THEN <<Issue("error", "Missing HTML document structure", 0, NoElement)>>
              ELSE <<>>)
          \o (IF Cardinality(Select(t, "head")) = 0
              THEN <<Issue("error", "Missing HEAD section", 0, NoElement)>>
              ELSE <<>>)
          \o (IF Cardinality(Select(t, "body")) = 0
              THEN <<Issue("error", "Missing BODY section", 0, NoElement)>>
              ELSE <<>>)
          \o (IF Cardinality(ImagesWithoutAlt(t)) > 0
              THEN <<Issue("warning", "images missing alt attributes",
                           Cardinality(ImagesWithoutAlt(t)), NoElement)>>
              ELSE <<>>),
          os)

----------------------------------------------------------------------------
(* The scorer *)

errorWeight == 20

warningWeight == 5

Max(a, b) == IF a >= b THEN a ELSE b

CountType(is, type) == Cardinality({i \in 1..Len(is) : is[i].type = type})

\* A faulty variant: the deductions are not cut off at 0.
UnclampedScore(is) ==
    100 - ((CountType(is, "error") * errorWeight) + (CountType(is, "warning") * warningWeight))

\* A faulty variant: a warning adds to the score instead of taking from it.
RewardingScore(is) ==
    Max(0, 100 - (CountType(is, "error") * errorWeight)
               + (CountType(is, "warning") * warningWeight))

\* The deductions are whole numbers, so Math.round returns its argument.
calculateCompatibilityScore(is) ==
    LET errorCount   == CountType(is, "error")
        warningCount == CountType(is, "warning")
        deductions   == (errorCount * errorWeight) + (warningCount * warningWeight)
    IN  Max(0, 100 - deductions)

----------------------------------------------------------------------------
(* $.html() and cheerio.load(html) *)

VoidTags == {"img", "meta", "link"}

Token(kind, n) ==
    [kind |-> kind, tag |-> n.tag, style |-> n.style, attrs |-> n.attrs,
     class |-> n.class, text |-> n.text]

CloseToken(tag) ==
    [kind |-> "close", tag |-> tag, style |-> NoStyle, attrs |-> NoAttrs,
     class |-> <<>>, text |-> ""]

Children(t, i) == InOrder({j \in 1..Len(t) : t[j].parent = i}, Len(t))

\* $.html(): the markup of the tree, as the sequence of its tags and comments
RECURSIVE SerializeNode(_, _), SerializeList(_, _, _)
SerializeNode(t, i) ==
    IF ~IsElement(t[i]) THEN <<Token("comment", t[i])>>
    ELSE IF t[i].tag \in VoidTags THEN <<Token("open", t[i])>>
    ELSE <<Token("open", t[i])>> \o SerializeList(t, Children(t, i), 1)
         \o <<CloseToken(t[i].tag)>>

SerializeList(t, kids, k) ==
    IF k > Len(kids) THEN <<>>
    ELSE SerializeNode(t, kids[k]) \o SerializeList(t, kids, k + 1)

Serialize(t) == SerializeList(t, Children(t, 0), 1)

\* cheerio.load(html): every tag and comment of the markup becomes a node under
\* the element that is open where it stands.  The loader adds no element of its
\* own: a fragment stays a tree without <html>, <head> or <body>.
RECURSIVE ParseTokens(_, _, _, _)
ParseTokens(toks, k, t, open) ==
    IF k > Len(toks) THEN t
    ELSE LET tok    == toks[k]
             parent == IF Len(open) = 0 THEN 0 ELSE open[Len(open)]
             node   == [tag |-> tok.tag, parent |-> parent, style |-> tok.style,
                        attrs |-> tok.attrs, class |-> tok.class, text |-> tok.text,
                        origin |-> "input"]
         IN  IF tok.kind = "close"
             THEN ParseTokens(toks, k + 1, t,
                              IF Len(open) = 0 THEN open ELSE SubSeq(open, 1, Len(open) - 1))
             ELSE ParseTokens(toks, k + 1, Append(t, node),
                              IF tok.kind = "open" /\ tok.tag \notin VoidTags
                              THEN Append(open, Len(t) + 1)
                              ELSE open)

Load(toks) == ParseTokens(toks, 1, <<>>, <<>>)

----------------------------------------------------------------------------
(* The inputs of the model *)

El(tag, style, attrs) == Node(tag, 0, style, attrs, "")

D(prop, val) == Seg(FALSE, prop, <<val>>)

D2(prop, val) == Seg(TRUE, prop, <<val>>)

\* elements that differ in tag and place only
PlainSpecimens ==
    { El("img", NoStyle, NoAttrs),
      El("table", NoStyle, NoAttrs),
      El("td", NoStyle, NoAttrs),
      Node("style", 0, NoStyle, NoAttrs, "userCSS"),
      El("script", NoStyle, NoAttrs),
      El("link", NoStyle, {<<"rel", "stylesheet">>}),
      El("meta", NoStyle, {<<"name", "viewport">>}),
      Node("#comment", 0, NoStyle, NoAttrs, "[if mso]") }

\* elements that bring attributes and inline styles, and the plain cell they
\* can stand in
StyledSpecimens ==
    { El("img", <<D("display", "none")>>, {<<"alt", "">>, <<"width", "10">>}),
      El("img", <<D("max-width", "100%")>>, {<<"alt", "logo">>}),
      El("table", <<D("color", "blue"), D2("float", "left"), D2("height", "10px")>>, NoAttrs),
      El("table", <<D("border-collapse", "separate"), D2("width", "100%")>>,
         {<<"cellpadding", "5">>, <<"border", "1">>}),
      El("td", NoStyle, NoAttrs),
      El("td", <<D("padding-left", "4px"), D2("background", "#000"), EmptySeg>>,
         {<<"valign", "middle">>}),
      El("p", <<D("font-family", "Foo"), D2("position", "absolute")>>, NoAttrs),
      El("p", <<D("color", "red")>>, NoAttrs),
      El("p", <<Seg(FALSE, "font-family", <<"'Arial'", "Foo">>),
                D2("background-color", "#111")>>, NoAttrs) }

\* elements that stand alone in a document: a paragraph with a property whose
\* name only contains 'font-family' (as mso-ascii-font-family does) in front of
\* its font-family, and an image whose width attribute is empty
LoneSpecimens ==
    { El("p", <<D("x-font-family", "Foo"), D2("font-family", "Bar")>>, NoAttrs),
      El("img", NoStyle, {<<"alt", "x">>, <<"width", "">>}) }

Containers == {"table", "td"}

FullSkeleton ==
    <<El("html", NoStyle, NoAttrs), [El("head", NoStyle, NoAttrs) EXCEPT !.parent = 1],
      [El("body", NoStyle, NoAttrs) EXCEPT !.parent = 1]>>

\* a fragment, <html> alone, <html> with <body>, and the full skeleton
Skeletons ==
    { <<>>,
      <<El("html", NoStyle, NoAttrs)>>,
      <<El("html", NoStyle, NoAttrs), [El("body", NoStyle, NoAttrs) EXCEPT !.parent = 1]>>,
      FullSkeleton }

\* The skeleton followed by the content elements; an element goes into the one
\* before it when nest says so and that one is a container, else into the last
\* element of the skeleton (the root for a fragment).
Document(skel, content, nest) ==
    skel \o [k \in 1..Len(content) |->
                [content[k] EXCEPT !.parent =
                    IF k > 1 /\ nest[k] /\ content[k - 1].tag \in Containers
                    THEN Len(skel) + k - 1
                    ELSE Len(skel)]]

Documents(skeletons, specimens, max) ==
    UNION { { Document(skel, content, nest) :
                skel \in skeletons,
                content \in [1..n -> specimens],
                nest \in [1..n -> BOOLEAN] } : n \in 0..max }

FreeDocuments ==
    Documents(Skeletons, PlainSpecimens, MaxElems)
    \cup Documents({FullSkeleton}, StyledSpecimens, MaxStyled)
    \cup Documents({FullSkeleton}, LoneSpecimens, 1)

\* depth tables, each inside a cell of the one before (cells = TRUE) or
\* directly inside it
Chain(depth, cells) ==
    LET step == IF cells THEN 2 ELSE 1
    IN  FullSkeleton \o [k \in 1..(step * depth) |->
                    IF cells /\ k % 2 = 0
                    THEN [El("td", NoStyle, NoAttrs) EXCEPT !.parent = 3 + k - 1]
                    ELSE [El("table", NoStyle, NoAttrs) EXCEPT !.parent =
                             IF k = 1 THEN 3 ELSE 3 + k - 1]]

ChainDocuments == { Chain(d, c) : d \in 1..MaxDepth, c \in BOOLEAN }

Inputs == { Serialize(d) : d \in FreeDocuments \cup ChainDocuments }

----------------------------------------------------------------------------
(* optimizeForEmailClients, one stage per step *)

NoError == ""

LoadError == "error thrown by cheerio.load"

WrappedError == "Failed to optimize email for client compatibility"

Stages ==
    <<"inlineStyles", "optimizeTableStructure", "addDarkModeSupport", "optimizeImages",
      "addOutlookCompatibility", "cleanupUnsupportedElements", "addEmailMetaTags",
      "validateEmailStructure", "return">>

\* the statements inside the try block
InTry == Range(Stages)

Idle == scoreArg = <<>> /\ scoreOut = 0 /\ prevScore = 0 /\ calls = <<>> /\ NoRequests

Init ==
    /\ pc = "call"
    /\ run = 1
    /\ html \in Inputs
    /\ tree = <<>>
    /\ issues = <<>>
    /\ optimizations = <<>>
    /\ result = <<>>
    /\ error = NoError
    /\ first = <<>>
    /\ Idle

ScoreUnchanged == UNCHANGED <<scoreArg, scoreOut, prevScore, calls>> /\ ApiUnchanged

\* lines 40-42
LoadDocument ==
    /\ pc = "call"
    /\ tree' = Load(html)
    /\ issues' = <<>>
    /\ optimizations' = <<>>
    /\ pc' = "inlineStyles"
    /\ UNCHANGED <<run, html, result, error, first>>
    /\ ScoreUnchanged

\* cheerio.load stands before the try block: what it throws leaves the call as it is
LoadThrows ==
    /\ pc = "call"
    /\ pc' = "failed"
    /\ error' = LoadError
    /\ UNCHANGED <<run, html, tree, issues, optimizations, result, first>>
    /\ ScoreUnchanged

RunStage(name, next, r) ==
    /\ pc = name
    /\ tree' = r.tree
    /\ issues' = r.issues
    /\ optimizations' = r.optimizations
    /\ pc' = next
    /\ UNCHANGED <<run, html, result, error, first>>
    /\ ScoreUnchanged

InlineStyles ==
    RunStage("inlineStyles", "optimizeTableStructure",
             inlineStyles(tree, issues, optimizations))

OptimizeTableStructure ==
    RunStage("optimizeTableStructure", "addDarkModeSupport",
             optimizeTableStructure(tree, issues, optimizations))

AddDarkModeSupport ==
    RunStage("addDarkModeSupport", "optimizeImages",
             addDarkModeSupport(tree, issues, optimizations))

OptimizeImages ==
    RunStage("optimizeImages", "addOutlookCompatibility",
             optimizeImages(tree, issues, optimizations))

AddOutlookCompatibility ==
    RunStage("addOutlookCompatibility", "cleanupUnsupportedElements",
             addOutlookCompatibility(tree, issues, optimizations))

CleanupUnsupportedElements ==
    RunStage("cleanupUnsupportedElements", "addEmailMetaTags",
             cleanupUnsupportedElements(tree, issues, optimizations))

AddEmailMetaTags ==
    RunStage("addEmailMetaTags", "validateEmailStructure",
             addEmailMetaTags(tree, issues, optimizations))

ValidateEmailStructure ==
    RunStage("validateEmailStructure", "return",
             validateEmailStructure(tree, issues, optimizations))

\* lines 69-83: serialize, score, return; the tree is dropped with the call
Return ==
    /\ pc = "return"
    /\ result' = <<[optimizedHtml      |-> Serialize(tree),
                    compatibilityScore |-> calculateCompatibilityScore(issues),
                    issues             |-> issues,
                    optimizations      |-> optimizations]>>
    /\ pc' = "done"
    /\ tree' = <<>>
    /\ issues' = <<>>
    /\ optimizations' = <<>>
    /\ UNCHANGED <<run, html, error, first>>
    /\ ScoreUnchanged

\* lines 84-87: whatever a statement of the try block throws is caught and
\* replaced by the one wrapped error; no later statement runs
StageThrows ==
    /\ pc \in InTry
    /\ pc' = "failed"
    /\ error' = WrappedError
    /\ tree' = <<>>
    /\ issues' = <<>>
    /\ optimizations' = <<>>
    /\ UNCHANGED <<run, html, result, first>>
    /\ ScoreUnchanged

\* the caller hands the optimizedHtml of the first call to a second call
Rerun ==
    /\ pc = "done"
    /\ run = 1
    /\ first' = <<[html |-> html, result |-> result[1]]>>
    /\ html' = result[1].optimizedHtml
    /\ run' = 2
    /\ result' = <<>>
    /\ pc' = "call"
    /\ UNCHANGED <<tree, issues, optimizations, error>>
    /\ ScoreUnchanged

Next ==
    \/ LoadDocument
    \/ LoadThrows
    \/ InlineStyles
    \/ OptimizeTableStructure
    \/ AddDarkModeSupport
    \/ OptimizeImages
    \/ AddOutlookCompatibility
    \/ CleanupUnsupportedElements
    \/ AddEmailMetaTags
    \/ ValidateEmailStructure
    \/ Return
    \/ StageThrows
    \/ Rerun

Spec == Init /\ [][Next]_vars

----------------------------------------------------------------------------
(* calculateCompatibilityScore applied to issue lists of its own *)

AnyIssue(type) == Issue(type, "issue", 0, NoElement)

ScoreInit ==
    /\ pc = "score"
    /\ run = 1
    /\ html = <<>>
    /\ tree = <<>>
    /\ issues = <<>>
    /\ optimizations = <<>>
    /\ result = <<>>
    /\ error = NoError
    /\ first = <<>>
    /\ Idle

PipelineUnchanged ==
    /\ UNCHANGED <<run, html, tree, issues, optimizations, result, error, first, calls>>
    /\ ApiUnchanged

Score ==
    /\ pc = "score"
    /\ scoreOut' = calculateCompatibilityScore(scoreArg)
    /\ prevScore' = IF scoreArg = <<>> THEN calculateCompatibilityScore(scoreArg)
                    ELSE scoreOut
    /\ pc' = "scored"
    /\ UNCHANGED scoreArg
    /\ PipelineUnchanged

AddIssue ==
    /\ pc = "scored"
    /\ Len(scoreArg) < MaxIssues
    /\ \E type \in {"error", "warning"} : scoreArg' = Append(scoreArg, AnyIssue(type))
    /\ pc' = "score"
    /\ UNCHANGED <<scoreOut, prevScore>>
    /\ PipelineUnchanged

ScoreNext == Score \/ AddIssue

ScoreSpec == ScoreInit /\ [][ScoreNext]_vars

----------------------------------------------------------------------------
(* Several invocations of optimizeForEmailClients in flight at once.  The    *)
(* body of the function holds no await, so the runtime runs a call from its  *)
(* first statement to its return in one piece; the calls here take turns     *)
(* stage by stage, which allows every schedule of the runtime and more.      *)

\* the whole try block on a tree of its own: what a call that runs alone returns
optimizeForEmailClients(h) ==
    LET r1 == inlineStyles(Load(h), <<>>, <<>>)
        r2 == optimizeTableStructure(r1.tree, r1.issues, r1.optimizations)
        r3 == addDarkModeSupport(r2.tree, r2.issues, r2.optimizations)
        r4 == optimizeImages(r3.tree, r3.issues, r3.optimizations)
        r5 == addOutlookCompatibility(r4.tree, r4.issues, r4.optimizations)
        r6 == cleanupUnsupportedElements(r5.tree, r5.issues, r5.optimizations)
        r7 == addEmailMetaTags(r6.tree, r6.issues, r6.optimizations)
        r8 == validateEmailStructure(r7.tree, r7.issues, r7.optimizations)
    IN  [optimizedHtml      |-> Serialize(r8.tree),
         compatibilityScore |-> calculateCompatibilityScore(r8.issues),
         issues             |-> r8.issues,
         optimizations      |-> r8.optimizations]

\* the statement of the try block a call stands at, applied to the call's locals
StageOf(name, t, is, os) ==
    CASE name = "inlineStyles"               -> inlineStyles(t, is, os)
      [] name = "optimizeTableStructure"     -> optimizeTableStructure(t, is, os)
      [] name = "addDarkModeSupport"         -> addDarkModeSupport(t, is, os)
      [] name = "optimizeImages"             -> optimizeImages(t, is, os)
      [] name = "addOutlookCompatibility"    -> addOutlookCompatibility(t, is, os)
      [] name = "cleanupUnsupportedElements" -> cleanupUnsupportedElements(t, is, os)
      [] name = "addEmailMetaTags"           -> addEmailMetaTags(t, is, os)
      [] name = "validateEmailStructure"     -> validateEmailStructure(t, is, os)

\* the statement after the given one
Following(name) == Stages[1 + CHOOSE k \in 1..(Len(Stages) - 1) : Stages[k] = name]

\* A faulty variant: the issue list is a static member of the class, so a call
\* starts with what the calls before it have pushed.
SharedIssues(cs) == FlatMap([i \in 1..Len(cs) |-> cs[i].issues], Len(cs))

\* const issues: EmailCompatibilityIssue[] = []
NewIssues(cs) == <<>>

\* const optimizations: string[] = []
NewOptimizations(cs) == <<>>

\* the texts the calls are given: a document with a style block and an image,
\* and a document without <body> that holds a script and a styled cell
Samples ==
    { Serialize(Document(FullSkeleton,
                         <<Node("style", 0, NoStyle, NoAttrs, "userCSS"),
                           El("img", NoStyle, NoAttrs)>>,
                         <<FALSE, FALSE>>)),
      Serialize(Document(<<El("html", NoStyle, NoAttrs)>>,
                         <<El("script", NoStyle, NoAttrs),
                           El("td", <<D("padding-left", "4px"), D2("background", "#000"),
                                      EmptySeg>>, {<<"valign", "middle">>})>>,
                         <<FALSE, FALSE>>)) }

\* a call that has not started; met records whether the call started while
\* another call was between its first statement and its end
Pending(h) ==
    [pc |-> "call", html |-> h, tree |-> <<>>, issues |-> <<>>, optimizations |-> <<>>,
     result |-> <<>>, met |-> FALSE]

InFlight(c) == c.pc \notin {"call", "done", "failed"}

Met(cs, i) == \E j \in DOMAIN cs : j # i /\ InFlight(cs[j])

CallsInit ==
    /\ pc = "calls"
    /\ run = 1
    /\ html = <<>>
    /\ tree = <<>>
    /\ issues = <<>>
    /\ optimizations = <<>>
    /\ result = <<>>
    /\ error = NoError
    /\ first = <<>>
    /\ scoreArg = <<>>
    /\ scoreOut = 0
    /\ prevScore = 0
    /\ NoRequests
    /\ calls \in [1..MaxCalls -> {Pending(h) : h \in Samples}]

CallsUnchanged ==
    /\ UNCHANGED <<pc, run, html, tree, issues, optimizations, result, error, first,
                   scoreArg, scoreOut, prevScore>>
    /\ ApiUnchanged

\* lines 40-42 of call i
Enter(i) ==
    /\ calls[i].pc = "call"
    /\ calls' = [calls EXCEPT ![i] =
                    [@ EXCEPT !.pc = "inlineStyles",
                              !.tree = Load(calls[i].html),
                              !.issues = NewIssues(calls),
                              !.optimizations = NewOptimizations(calls),
                              !.met = Met(calls, i)]]
    /\ CallsUnchanged

\* one of the statements 1 to 8 of call i
Advance(i) ==
    /\ calls[i].pc \in InTry \ {"return"}
    /\ LET c == calls[i]
           r == StageOf(c.pc, c.tree, c.issues, c.optimizations)
       IN  calls' = [calls EXCEPT ![i] =
                        [@ EXCEPT !.pc = Following(c.pc),
                                  !.tree = r.tree,
                                  !.issues = r.issues,
                                  !.optimizations = r.optimizations]]
    /\ CallsUnchanged

\* lines 69-83 of call i
Leave(i) ==
    /\ calls[i].pc = "return"
    /\ LET c == calls[i]
       IN  calls' = [calls EXCEPT ![i] =
                        [@ EXCEPT !.pc = "done",
                                  !.result =
                                      <<[optimizedHtml      |-> Serialize(c.tree),
                                         compatibilityScore |->
                                             calculateCompatibilityScore(c.issues),
                                         issues             |-> c.issues,
                                         optimizations      |-> c.optimizations]>>,
                                  !.tree = <<>>,
                                  !.issues = <<>>,
                                  !.optimizations = <<>>]]
    /\ CallsUnchanged

\* lines 84-87 of call i
Throw(i) ==
    /\ calls[i].pc \in InTry
    /\ calls' = [calls EXCEPT ![i] =
                    [@ EXCEPT !.pc = "failed", !.tree = <<>>, !.issues = <<>>,
                              !.optimizations = <<>>]]
    /\ CallsUnchanged

CallsNext ==
    \/ \E i \in 1..MaxCalls : Enter(i)
    \/ \E i \in 1..MaxCalls : Advance(i)
    \/ \E i \in 1..MaxCalls : Leave(i)
    \/ \E i \in 1..MaxCalls : Throw(i)

CallsSpec == CallsInit /\ [][CallsNext]_vars

----------------------------------------------------------------------------
(* Notions the properties are stated in *)

Done == pc = "done"

Returned == result[1]

\* the tags of an HTML text that open an element of the given name
Elements(toks, tag) == {k \in 1..Len(toks) : toks[k].kind = "open" /\ toks[k].tag = tag}

\* every element of an HTML text
AllTags(toks) == {k \in 1..Len(toks) : toks[k].kind = "open"}

\* the declarations of a style string: its ';'-separated parts that are not blank
Declarations(style) ==
    {style[i] : i \in {j \in 1..Len(style) : style[j].prop # "" \/ Len(style[j].val) > 0}}

\* the style string contains the text 'prop: val;'
HasTerminated(style, prop, val) ==
    \E i \in 1..(Len(style) - 1) : style[i].prop = prop /\ style[i].val = <<val>>

\* the wording of an issue: the fixed text with the number set into it
Message(issue) == <<issue.message, issue.count>>

Messages(is) == {Message(is[i]) : i \in 1..Len(is)}

\* how many issues of a list have the given wording (ignoring the number)
Count(is, message) == Cardinality({i \in 1..Len(is) : is[i].message = message})

RECURSIVE Tally(_, _)
Tally(is, type) ==
    IF is = <<>> THEN 0
    ELSE (IF Head(is).type = type THEN 1 ELSE 0) + Tally(Tail(is), type)

----------------------------------------------------------------------------
(* C1, C2: the scorer *)

Scored == pc = "scored"

\* C1: for every issue list the score is max(0, 100 - 20*errors - 5*warnings),
\* an integer in 0..100.
C1_ScoreFormula ==
    Scored =>
        LET expected == 100 - 20 * Tally(scoreArg, "error") - 5 * Tally(scoreArg, "warning")
        IN  /\ scoreOut = (IF expected < 0 THEN 0 ELSE expected)
            /\ scoreOut \in 0..100

C1_Witness ==
    /\ Scored
    /\ Tally(scoreArg, "error") = 2
    /\ Tally(scoreArg, "warning") = 3
    /\ scoreOut = 45

\* C2: adding an issue of either kind never raises the score; the empty list
\* scores 100; a list with 5 or more errors scores 0.
C2_ScoreMonotone ==
    Scored =>
        /\ scoreOut <= prevScore
        /\ (scoreArg = <<>> => scoreOut = 100)
        /\ (Tally(scoreArg, "error") >= 5 => scoreOut = 0)

C2_Witness ==
    /\ Scored
    /\ Tally(scoreArg, "error") = 5
    /\ scoreOut = 0
    /\ prevScore = 20

----------------------------------------------------------------------------
(* C3: the pipeline run on its own output *)

\* C3: the second run scores no lower than the first and reports no issue
\* message the first did not report.
C3_PartialIdempotence ==
    (Done /\ run = 2) =>
        /\ Returned.compatibilityScore >= first[1].result.compatibilityScore
        /\ Messages(Returned.issues) \subseteq Messages(first[1].result.issues)

----------------------------------------------------------------------------
(* C4: only allow-listed properties remain *)

SafeProperties ==
    {"background-color", "color", "font-family", "font-size", "font-weight",
     "text-align", "padding", "margin", "border", "width", "height", "line-height",
     "text-decoration", "vertical-align", "display"}

\* C4: every declaration left on an element of the output names one of the 15
\* email-safe properties, also a declaration an earlier stage injected.
C4_OnlySafeProperties ==
    Done =>
        \A k \in AllTags(Returned.optimizedHtml) :
            \A d \in Declarations(Returned.optimizedHtml[k].style) :
                d.prop \in SafeProperties

\* a table of the input lost the injected border-collapse and an input
\* declaration, and a cell kept the injected padding
C4_Witness ==
    /\ Done
    /\ run = 1
    /\ \E k \in Elements(html, "p") :
          \E d \in Declarations(html[k].style) : d.prop = "position"
    /\ \E k \in Elements(html, "td") : html[k].style = NoStyle
    /\ \E k \in Elements(Returned.optimizedHtml, "td") :
          \E d \in Declarations(Returned.optimizedHtml[k].style) : d.prop = "padding"

----------------------------------------------------------------------------
(* C5: style blocks of the output *)

MsoBlocks(toks) == {k \in 1..Len(toks) : toks[k].kind = "comment" /\ toks[k].text = "[if mso]"}

\* C5: when the input holds a <style> block, the style blocks of the output
\* are one dark-mode block and one Outlook-conditional block, and nothing of
\* the input's.
C5_OnlyInjectedStyleBlocks ==
    (Done /\ Elements(html, "style") # {}) =>
        /\ \A k \in Elements(Returned.optimizedHtml, "style") :
              Returned.optimizedHtml[k].text = "darkModeCSS"
        /\ Cardinality(Elements(Returned.optimizedHtml, "style")) = 1
        /\ Cardinality(MsoBlocks(Returned.optimizedHtml)) = 1

----------------------------------------------------------------------------
(* C6: images have an alt attribute *)

\* C6: every <img> of the output has an alt attribute, and the validator's
\* warning about images without one is never issued.
C6_ImagesHaveAlt ==
    Done =>
        /\ \A k \in Elements(Returned.optimizedHtml, "img") :
              Attr(Returned.optimizedHtml[k].attrs, "alt") # Absent
        /\ Count(Returned.issues, "images missing alt attributes") = 0

C6_Witness ==
    /\ Done
    /\ run = 1
    /\ \E k \in Elements(html, "img") : Attr(html[k].attrs, "alt") = Absent
    /\ Elements(Returned.optimizedHtml, "img") # {}

----------------------------------------------------------------------------
(* C7: table attributes *)

Zeroed(attrs) ==
    /\ Attr(attrs, "cellpadding") = "0"
    /\ Attr(attrs, "cellspacing") = "0"
    /\ Attr(attrs, "border") = "0"

AfterTables ==
    {"addDarkModeSupport", "optimizeImages", "addOutlookCompatibility",
     "cleanupUnsupportedElements", "addEmailMetaTags", "validateEmailStructure", "return"}

\* C7: every <table> of the output has cellpadding, cellspacing and border "0",
\* whatever the input had, and no stage after the table normalizer changes them.
C7_TablesZeroed ==
    /\ Done =>
          \A k \in Elements(Returned.optimizedHtml, "table") :
              Zeroed(Returned.optimizedHtml[k].attrs)
    /\ pc \in AfterTables => \A i \in Select(tree, "table") : Zeroed(tree[i].attrs)

C7_Witness ==
    /\ Done
    /\ run = 1
    /\ \E k \in Elements(html, "table") : Attr(html[k].attrs, "cellpadding") = "5"
    /\ \E k \in Elements(html, "table") : Attr(html[k].attrs, "cellpadding") = Absent
    /\ Cardinality(Elements(Returned.optimizedHtml, "table")) = 2

----------------------------------------------------------------------------
(* C8: the scenario <html><body><img src="x.png"></body></html> *)

ImageOnly ==
    Serialize(<<El("html", NoStyle, NoAttrs),
                [El("body", NoStyle, NoAttrs) EXCEPT !.parent = 1],
                [El("img", NoStyle, NoAttrs) EXCEPT !.parent = 2]>>)

\* C8: the output has a <head>; the image has alt="" and a style containing
\* 'display: block;'; the issues are one missing-alt warning and one
\* missing-width warning and nothing else; the score is 90.
C8_ImageScenario ==
    (Done /\ run = 1 /\ html = ImageOnly) =>
        LET out == Returned.optimizedHtml
        IN  /\ Elements(out, "head") # {}
            /\ Cardinality(Elements(out, "img")) = 1
            /\ \A k \in Elements(out, "img") :
                  /\ Attr(out[k].attrs, "alt") = ""
                  /\ HasTerminated(out[k].style, "display", "block")
            /\ Len(Returned.issues) = 2
            /\ \A i \in 1..2 : Returned.issues[i].type = "warning"
            /\ Count(Returned.issues, "Image missing alt text") = 1
            /\ Count(Returned.issues, "Image missing width attribute") = 1
            /\ Returned.compatibilityScore = 90

C8_Witness == Done /\ run = 1 /\ html = ImageOnly

----------------------------------------------------------------------------
(* C9: nested tables *)

NestingWarnings(is, n) ==
    {i \in 1..Len(is) : is[i].message = "Table has nested tables" /\ is[i].count = n}

IsChain(toks, depth) == \E c \in BOOLEAN : toks = Serialize(Chain(depth, c))

\* C9 as stated: 4 tables nested one inside the other give a nested-table
\* warning that mentions 4 nested tables, and a score of at most 95.
C9_FourNestedWarned ==
    (Done /\ run = 1 /\ IsChain(html, 4)) =>
        /\ NestingWarnings(Returned.issues, 4) # {}
        /\ Returned.compatibilityScore <= 95

\* C9 amended: 5 tables nested one inside the other give a nested-table
\* warning that mentions 4 nested tables, and a score of at most 95; 4 nested
\* tables give no nested-table warning at all.
C9_FiveNestedWarned ==
    /\ (Done /\ run = 1 /\ IsChain(html, 5)) =>
          /\ NestingWarnings(Returned.issues, 4) # {}
          /\ Returned.compatibilityScore <= 95
    /\ (Done /\ run = 1 /\ IsChain(html, 4)) =>
          Count(Returned.issues, "Table has nested tables") = 0

C9_Witness ==
    /\ Done
    /\ run = 1
    /\ IsChain(html, 5)
    /\ Cardinality(NestingWarnings(Returned.issues, 4)) = 1

----------------------------------------------------------------------------
(* C10: all or nothing, one failure kind *)

\* C10: the call either returns a full result after all stages, or fails with
\* the one wrapped error, also when loading the input fails; after a failure
\* no stage runs.
C10_SingleFailureKind ==
    /\ pc = "failed" => (error = WrappedError /\ result = <<>>)
    /\ Done => (error = NoError /\ Len(Returned.optimizations) >= 6)

----------------------------------------------------------------------------
(* C11: calls in flight at once *)

\* C11: the optimizer keeps nothing between calls.  Every call starts with a
\* tree loaded from its own argument, an empty issue list and an empty
\* optimizations list, and however the statements of several calls take
\* turns, what a call returns is what it returns when it runs alone.
C11_Reentrant ==
    \A i \in DOMAIN calls :
        /\ calls[i].pc = "inlineStyles" =>
              /\ calls[i].tree = Load(calls[i].html)
              /\ calls[i].issues = <<>>
              /\ calls[i].optimizations = <<>>
        /\ calls[i].pc = "done" =>
              calls[i].result = <<optimizeForEmailClients(calls[i].html)>>

\* two calls on different texts, the second started in between statements of
\* the first, both returned with issues
C11_Witness ==
    /\ calls # <<>>
    /\ calls[1].pc = "done" /\ calls[2].pc = "done"
    /\ calls[2].met
    /\ calls[1].html # calls[2].html
    /\ calls[1].result[1].issues # <<>>
    /\ calls[2].result[1].issues # <<>>
    /\ calls[1].result[1].issues # calls[2].result[1].issues

----------------------------------------------------------------------------
(* C12: order of the stages and of what they record *)

\* the records of the stages that always leave one, in stage order
StageRecords ==
    <<"Optimized table structure for email clients",
      "Added dark mode support",
      "Optimized images for email clients",
      "Added Outlook compatibility fixes",
      "Cleaned up unsupported elements and styles",
      "Added essential email meta tags">>

ValidatorErrors ==
    {"Missing HTML document structure", "Missing HEAD section", "Missing BODY section"}

IsPrefix(s, t) == Len(s) <= Len(t) /\ SubSeq(t, 1, Len(s)) = s

\* every issue of the validator stands after every issue of the other stages
ValidatorLast(is) ==
    \A i, j \in 1..Len(is) :
        (is[i].message \in ValidatorErrors /\ is[j].message \notin ValidatorErrors) => j < i

\* a step of a call that does not throw goes to the next statement, and keeps
\* what issues and optimizations hold as the beginning of what they hold next
InOrderStep ==
    /\ (pc = "call" /\ pc' # "failed") => pc' = Stages[1]
    /\ (pc \in InTry \ {"return"} /\ pc' # "failed") =>
          /\ \E k \in 1..(Len(Stages) - 1) : pc = Stages[k] /\ pc' = Stages[k + 1]
          /\ IsPrefix(issues, issues')
          /\ IsPrefix(optimizations, optimizations')
    /\ (pc = "return" /\ pc' # "failed") =>
          /\ pc' = "done"
          /\ result'[1].issues = issues
          /\ result'[1].optimizations = optimizations

\* C12: the stages run in the order inliner, table normalizer, dark-mode
\* annotator, image normalizer, Outlook adapter, sanitizer, meta injector,
\* validator.  A returned result lists the six records of the stages that
\* always leave one, in stage order, preceded by 'Removed embedded CSS styles'
\* exactly when the input held a <style> element; issues are only ever added
\* at the end of the list, and the validator's errors come last.
C12_StageOrder ==
    /\ [](Done =>
            /\ Returned.optimizations =
                  (IF Elements(html, "style") # {}
                   THEN <<"Removed embedded CSS styles">> ELSE <<>>) \o StageRecords
            /\ ValidatorLast(Returned.issues))
    /\ [][InOrderStep]_vars

\* a text with a <style> block and an image but no <body>: seven records, the
\* three warnings in the order style, alt, width, and the validator's error last
C12_Witness ==
    /\ Done
    /\ run = 1
    /\ Elements(html, "style") # {}
    /\ Len(Returned.optimizations) = 7
    /\ [i \in 1..Len(Returned.issues) |-> Returned.issues[i].message] =
          <<"Found <style> tags", "Image missing alt text",
            "Image missing width attribute", "Missing BODY section">>

----------------------------------------------------------------------------
(* C13: <body> is never created *)

\* the issues of a list other than those with the given wording
Without(is, message) ==
    LET Other(issue) == issue.message # message
    IN  SelectSeq(is, Other)

----------------------------------------------------------------------------
(* C14: a <head> is created where there is none *)

AfterDarkMode ==
    {"optimizeImages", "addOutlookCompatibility", "cleanupUnsupportedElements",
     "addEmailMetaTags", "validateEmailStructure", "return"}

\* the nodes of the tree that stand directly in a <head>
InHead(t) == {i \in 1..Len(t) : t[i].parent # 0 /\ t[t[i].parent].tag = "head"}

----------------------------------------------------------------------------
(* C15: the warning about a missing alt attribute *)

\* C15: the image normalizer pushes one 'Image missing alt text' warning for
\* each image that has no alt attribute, and none for an image that has one,
\* whatever its value, the empty string included.
C15_AltWarningIffAbsent ==
    Done =>
        Count(Returned.issues, "Image missing alt text") =
            Cardinality({k \in Elements(html, "img") : Attr(html[k].attrs, "alt") = Absent})

----------------------------------------------------------------------------
(* C16: one nesting warning for each deep table *)

\* the tables below a table, at any depth
TablesBelow(t, i) == (Subtree(t, i) \ {i}) \cap Select(t, "table")

DeepTables(t) == {i \in Select(t, "table") : Cardinality(TablesBelow(t, i)) > 3}

NestingOnly(is) ==
    LET IsNesting(issue) == issue.message = "Table has nested tables"
    IN  SelectSeq(is, IsNesting)

\* C16: the table normalizer pushes one nesting warning, a warning that
\* carries the number of tables below, for each table with more than 3 tables
\* below it, in document order, and none for a table with 3 or fewer; n tables
\* nested one inside the other give max(0, n - 4) nesting warnings.
C16_NestingWarnings ==
    /\ pc = "addDarkModeSupport" =>
          LET deep == InOrder(DeepTables(tree), Len(tree))
          IN  NestingOnly(issues) =
                  [k \in 1..Len(deep) |->
                      Issue("warning", "Table has nested tables",
                            Cardinality(TablesBelow(tree, deep[k])), "table")]
    /\ \A n \in 1..MaxDepth :
          (Done /\ run = 1 /\ IsChain(html, n)) =>
              Count(Returned.issues, "Table has nested tables") =
                  (IF n - 4 < 0 THEN 0 ELSE n - 4)

\* 6 tables nested one inside the other: a warning for the outermost one, with 5
\* tables below it, and one for the next, with 4
C16_Witness ==
    /\ Done
    /\ run = 1
    /\ IsChain(html, 6)
    /\ [i \in 1..Len(NestingOnly(Returned.issues)) |-> NestingOnly(Returned.issues)[i].count]
          = <<5, 4>>

----------------------------------------------------------------------------
(* C17: what the style inliner records *)

AfterInliner == pc = "optimizeTableStructure"

\* C17: when the loaded tree holds one or more <style> elements, the inliner
\* pushes exactly one warning, which carries their number, and exactly one
\* optimization record, and removes them all; when it holds none, the inliner
\* pushes neither.
C17_InlinerRecords ==
    AfterInliner =>
        LET n == Cardinality(Elements(html, "style"))
        IN  /\ Select(tree, "style") = {}
            /\ n >= 1 =>
                  /\ issues = <<Issue("warning", "Found <style> tags", n, NoElement)>>
                  /\ optimizations = <<"Removed embedded CSS styles">>
            /\ n = 0 => (issues = <<>> /\ optimizations = <<>>)

\* two <style> elements: one warning that counts 2, one record, none left
C17_Witness ==
    /\ AfterInliner
    /\ run = 1
    /\ Cardinality(Elements(html, "style")) = 2
    /\ Len(issues) = 1
    /\ issues[1].count = 2
    /\ Len(optimizations) = 1
    /\ Select(tree, "style") = {}

----------------------------------------------------------------------------
(* C18: the defaults of the inliner are added, nothing is taken *)

\* the elements of a text other than <style>, in document order
OtherThanStyle(toks) ==
    LET Keep(tok) == tok.kind = "open" /\ tok.tag # "style"
    IN  SelectSeq(toks, Keep)

ElementsOf(t) == SelectSeq(t, IsElement)

\* the text ('' for a missing attribute) followed by '; prop: val;'
WithDefault(style, prop, val) ==
    (IF style = NoStyle THEN EmptyString ELSE style)
    \o <<Seg(TRUE, prop, <<val>>), EmptySeg>>

\* C18: the inliner appends 'border-collapse: collapse;' to the style of a
\* <table> exactly when the style does not contain 'border-collapse', and
\* 'padding: 0;' to the style of a <td> exactly when the style does not
\* contain 'padding'; the text the style had stays as it was, in front of what
\* is appended; the style of every other element stays as it was.
C18_DefaultsAdditive ==
    AfterInliner =>
        LET before == OtherThanStyle(html)
            after  == ElementsOf(tree)
        IN  /\ Len(after) = Len(before)
            /\ \A k \in 1..Len(before) :
                  LET old == before[k].style
                      new == after[k].style
                      tag == before[k].tag
                  IN  /\ after[k].tag = tag
                      /\ IsPrefix(old, new)
                      /\ new = (IF tag = "table" /\ ~Includes(old, "border-collapse")
                                THEN WithDefault(old, "border-collapse", "collapse")
                                ELSE IF tag = "td" /\ ~Includes(old, "padding")
                                     THEN WithDefault(old, "padding", "0")
                                     ELSE old)

\* a table with a style that has no border-collapse and a cell with a style
\* that has padding-left: the table keeps its three declarations in front of
\* the default, the cell and nothing else is changed
C18_Witness ==
    /\ AfterInliner
    /\ run = 1
    /\ \E k \in Elements(html, "table") :
          /\ Len(html[k].style) = 3
          /\ \E i \in Select(tree, "table") :
                /\ Len(tree[i].style) = 5
                /\ SubSeq(tree[i].style, 1, 3) = html[k].style
                /\ HasTerminated(tree[i].style, "border-collapse", "collapse")
    /\ \E k \in Elements(html, "td") :
          /\ Includes(html[k].style, "padding")
          /\ \E i \in Select(tree, "td") : tree[i].style = html[k].style

----------------------------------------------------------------------------
(* C19: the sanitizer prunes style strings *)

Unsupported(n) ==
    \/ n.tag = "script"
    \/ n.tag = "link" /\ Attr(n.attrs, "rel") = "stylesheet"
    \/ n.tag = "meta" /\ Attr(n.attrs, "name") = "viewport"

\* the elements of a tree that the sanitizer does not remove, in document order
Supported(t) ==
    LET Keep(n) == IsElement(n) /\ ~Unsupported(n)
    IN  SelectSeq(t, Keep)

\* the declarations of a style string in their order, each as property and value
DeclList(style) ==
    LET NotBlank(seg) == seg.prop # "" \/ Len(seg.val) > 0
        decls == SelectSeq(style, NotBlank)
    IN  [i \in 1..Len(decls) |-> <<decls[i].prop, decls[i].val>>]

SafeList(style) ==
    LET Safe(d) == d[1] \in SafeProperties
    IN  SelectSeq(DeclList(style), Safe)

\* the elements that lose a declaration
Pruned(elements) ==
    LET Loses(n) == SafeList(n.style) # DeclList(n.style)
    IN  SelectSeq(elements, Loses)

CssOnly(is) ==
    LET IsCss(issue) == issue.message = "Removed unsupported CSS properties"
    IN  SelectSeq(is, IsCss)

Sanitizing == pc = "cleanupUnsupportedElements" /\ pc' = "addEmailMetaTags"

\* what the step adds to issues
Pushed == SubSeq(issues', Len(issues) + 1, Len(issues'))

\* C19: for every element with a style that is not empty, the style after the
\* sanitizer holds exactly the declarations of the allow-listed properties, in
\* the order they had; the sanitizer pushes exactly one 'Removed unsupported CSS
\* properties' warning that names the element's tag when at least one
\* declaration of the element was dropped, and none otherwise; an element that
\* loses no declaration keeps its style string as it was.
C19_StylePruned ==
    [][Sanitizing =>
          LET before == Supported(tree)
              after  == ElementsOf(tree')
              pruned == Pruned(before)
          IN  /\ Len(after) = Len(before)
              /\ \A k \in 1..Len(before) :
                    LET old == before[k].style
                        new == after[k].style
                    IN  /\ after[k].tag = before[k].tag
                        /\ (old # NoStyle /\ old # EmptyString) =>
                              DeclList(new) = SafeList(old)
                        /\ SafeList(old) = DeclList(old) => new = old
              /\ CssOnly(Pushed) =
                    [k \in 1..Len(pruned) |->
                        Issue("warning", "Removed unsupported CSS properties", 0,
                              pruned[k].tag)]]_vars

\* a table that came with color, float and height and got border-collapse from
\* the inliner, and a paragraph with color alone: the table is left with color
\* and height, the paragraph with what it had, and the one warning names the table
C19_Witness ==
    /\ pc = "addEmailMetaTags"
    /\ run = 1
    /\ \E i \in Select(tree, "table") :
          DeclList(tree[i].style) = <<<<"color", <<"blue">>>>, <<"height", <<"10px">>>>>>
    /\ \E i \in Select(tree, "p") :
          \E k \in Elements(html, "p") :
              tree[i].style = html[k].style /\ DeclList(html[k].style) # <<>>
    /\ Len(CssOnly(issues)) = 1
    /\ CssOnly(issues)[1].element = "table"

----------------------------------------------------------------------------
(* C20: the sanitizer removes the unsupported elements *)

AfterSanitizer == {"addEmailMetaTags", "validateEmailStructure", "return"}

RemovalsOnly(is) ==
    LET IsRemoval(issue) == issue.message = "Removed unsupported elements"
    IN  SelectSeq(is, IsRemoval)

\* one warning with the number of elements for a selector that matches
Removal(t, selector, Matching(_)) ==
    LET n == Cardinality({i \in 1..Len(t) : Matching(t[i])})
    IN  IF n > 0
        THEN <<Issue("warning", "Removed unsupported elements", n, selector)>>
        ELSE <<>>

Removals(t) ==
    LET IsScript(n) == n.tag = "script"
        IsSheet(n)  == n.tag = "link" /\ Attr(n.attrs, "rel") = "stylesheet"
        IsView(n)   == n.tag = "meta" /\ Attr(n.attrs, "name") = "viewport"
    IN  Removal(t, "script", IsScript)
        \o Removal(t, "link[rel=\"stylesheet\"]", IsSheet)
        \o Removal(t, "meta[name=\"viewport\"]", IsView)

\* C20: after the sanitizer the tree, and so the output, holds no <script>, no
\* <link rel="stylesheet"> and no <meta name="viewport">; for each of the three
\* selectors the sanitizer pushes exactly one warning with the number of
\* elements removed when the selector matched at least one element, and none
\* when it matched none: at most three such warnings.
C20_UnsupportedRemoved ==
    /\ [](pc \in AfterSanitizer => \A i \in 1..Len(tree) : ~Unsupported(tree[i]))
    /\ [](Done => \A k \in AllTags(Returned.optimizedHtml) :
                      ~Unsupported(Returned.optimizedHtml[k]))
    /\ [][Sanitizing =>
             /\ RemovalsOnly(Pushed) = Removals(tree)
             /\ Len(RemovalsOnly(Pushed)) <= 3]_vars

\* two scripts in the text: none left, one warning that counts 2
C20_Witness ==
    /\ pc = "addEmailMetaTags"
    /\ run = 1
    /\ Cardinality(Elements(html, "script")) = 2
    /\ Select(tree, "script") = {}
    /\ RemovalsOnly(issues) =
          <<Issue("warning", "Removed unsupported elements", 2, "script")>>

----------------------------------------------------------------------------
(* C21: the font fallback for Outlook *)

Patching == pc = "addOutlookCompatibility" /\ pc' = "cleanupUnsupportedElements"

\* the place of the first font-family declaration of a style string (0: none)
FirstFont(style) ==
    LET decls == {i \in 1..Len(style) : style[i].prop = "font-family"}
    IN  IF decls = {} THEN 0 ELSE CHOOSE i \in decls : \A j \in decls : i <= j

\* the font names of a declaration, without their quotes
FontNames(seg) == [j \in 1..Len(seg.val) |-> Unquote(seg.val[j])]

ListsSafeFont(seg) == \E j \in 1..Len(seg.val) : FontNames(seg)[j] \in OUTLOOK_SAFE_FONTS

\* the elements of a tree that the Outlook stage did not put there
NotFromOutlook(t) ==
    LET Keep(n) == IsElement(n) /\ n.origin # "outlook"
    IN  SelectSeq(t, Keep)

\* C21: after the Outlook stage the first font-family declaration of every
\* element lists at least one of the 13 Outlook-safe fonts; an element whose
\* declaration listed one keeps its style, an element whose declaration listed
\* none gets its fonts in their order followed by Arial, sans-serif and keeps
\* every other declaration; the stage applied once more changes no style.
C21_FontFallback ==
    [][Patching =>
          LET before == ElementsOf(tree)
              after  == NotFromOutlook(tree')
          IN  /\ Len(after) = Len(before)
              /\ \A k \in 1..Len(before) :
                    LET old == before[k].style
                        new == after[k].style
                        i   == FirstFont(old)
                    IN  /\ i = 0 => new = old
                        /\ (i # 0 /\ ListsSafeFont(old[i])) => new = old
                        /\ (i # 0 /\ ~ListsSafeFont(old[i])) =>
                              new = [old EXCEPT
                                        ![i].val = FontNames(old[i]) \o <<"Arial", "sans-serif">>]
                        /\ FirstFont(new) # 0 => ListsSafeFont(new[FirstFont(new)])
              /\ \A i \in 1..Len(tree') : FontFixed(tree'[i]) = tree'[i]]_vars

----------------------------------------------------------------------------
(* C22: the dark-mode block and the dark-mode-text class *)

Annotating == pc = "addDarkModeSupport" /\ pc' = "optimizeImages"

DarkBlocks(t) == {i \in InHead(t) : t[i].tag = "style" /\ t[i].origin = "darkMode"}

NotFromDarkMode(t) ==
    LET Keep(n) == IsElement(n) /\ n.origin # "darkMode"
    IN  SelectSeq(t, Keep)

\* the element is one of the text elements and its style has a dark background
DarkBackground(n) ==
    /\ n.tag \in {"p", "div", "span", "td", "h1", "h2", "h3", "h4", "h5", "h6"}
    /\ Includes(n.style, "background")
    /\ \E colour \in {"#000", "#111", "#222"} : Includes(n.style, colour)

Times(class, name) == Cardinality({j \in 1..Len(class) : class[j] = name})

----------------------------------------------------------------------------
(* C23: a missing image width is reported and left alone *)

\* the width declarations of a style string, in their order
WidthDecls(style) ==
    LET IsWidth(d) == d[1] = "width"
    IN  SelectSeq(DeclList(style), IsWidth)

\* the width attribute and the width declarations of the images, in document order
Widths(images) ==
    [k \in 1..Len(images) |-> <<Attr(images[k].attrs, "width"), WidthDecls(images[k].style)>>]

ImagesOf(nodes) ==
    LET IsImage(n) == n.tag = "img"
    IN  SelectSeq(nodes, IsImage)

\* the images of a text whose width attribute is as given and whose style does
\* not contain 'width'
Unsized(toks, widths) ==
    {k \in Elements(toks, "img") :
        Attr(toks[k].attrs, "width") \in widths /\ ~Includes(toks[k].style, "width")}

\* C23: the image stage pushes one 'Image missing width attribute' warning for
\* each <img> that has no width attribute and no 'width' in its style (an empty
\* width attribute is taken as none), and no stage adds or changes a width
\* attribute or a width declaration of an <img>.
C23_WidthFlaggedOnly ==
    /\ pc \in {"call", "inlineStyles", "optimizeTableStructure", "addDarkModeSupport",
               "optimizeImages"} =>
          Count(issues, "Image missing width attribute") = 0
    /\ pc \in {"addOutlookCompatibility", "cleanupUnsupportedElements", "addEmailMetaTags",
               "validateEmailStructure", "return"} =>
          /\ Count(issues, "Image missing width attribute")
                = Cardinality(Unsized(html, {Absent, ""}))
          /\ Count(issues, "Image missing width attribute")
                >= Cardinality(Unsized(html, {Absent}))
    /\ pc \in InTry => Widths(ImagesOf(tree)) = Widths(ImagesOf(html))
    /\ Done => Widths(ImagesOf(Returned.optimizedHtml)) = Widths(ImagesOf(html))

\* two images without width and without style: two warnings, and the images
\* of the output still have no width attribute and no width declaration
C23_Witness ==
    /\ Done
    /\ run = 1
    /\ Cardinality(Unsized(html, {Absent})) = 2
    /\ Count(Returned.issues, "Image missing width attribute") = 2
    /\ Widths(ImagesOf(Returned.optimizedHtml)) = <<<<Absent, <<>>>>, <<Absent, <<>>>>>>

----------------------------------------------------------------------------
(* C24: what the inliner adds and the sanitizer takes again *)

TablesOf(nodes) ==
    LET IsTable(n) == n.tag = "table"
    IN  SelectSeq(nodes, IsTable)

CellsOf(toks) ==
    LET IsCell(tok) == tok.kind = "open" /\ tok.tag = "td"
    IN  SelectSeq(toks, IsCell)

HasDecl(style, prop) == \E i \in 1..Len(DeclList(style)) : DeclList(style)[i][1] = prop

\* C24: for a text with a <table> whose style does not contain
\* 'border-collapse', the declaration the inliner appends is dropped by the
\* sanitizer: no table of the output has a border-collapse declaration, and
\* the result holds a 'Removed unsupported CSS properties' warning with element
\* 'table', so the score is at most 95, also when the text used allow-listed
\* properties only; the 'padding: 0' the inliner gives a <td> is in the output.
C24_DefaultDroppedAgain ==
    Done =>
        LET out == Returned.optimizedHtml
        IN  /\ (\E k \in Elements(html, "table") : ~Includes(html[k].style, "border-collapse")) =>
                  /\ \A k \in Elements(out, "table") : ~HasDecl(out[k].style, "border-collapse")
                  /\ \E i \in 1..Len(Returned.issues) :
                        /\ Returned.issues[i].message = "Removed unsupported CSS properties"
                        /\ Returned.issues[i].element = "table"
                        /\ Returned.issues[i].type = "warning"
                  /\ Returned.compatibilityScore <= 95
            /\ Len(CellsOf(out)) = Len(CellsOf(html))
            /\ \A k \in 1..Len(CellsOf(html)) :
                  ~Includes(CellsOf(html)[k].style, "padding") =>
                      <<"padding", <<"0">>>> \in Range(DeclList(CellsOf(out)[k].style))

\* a table and a cell without any style: the table of the output has no
\* border-collapse, the cell has padding: 0, the one issue is the warning
\* about the table, the score is 95
C24_Witness ==
    /\ Done
    /\ run = 1
    /\ \A k \in AllTags(html) : html[k].style = NoStyle
    /\ Elements(html, "table") # {}
    /\ Elements(html, "td") # {}
    /\ \A k \in Elements(Returned.optimizedHtml, "td") :
          HasTerminated(Returned.optimizedHtml[k].style, "padding", "0")
    /\ Len(Returned.issues) = 1
    /\ Returned.issues[1].element = "table"
    /\ Returned.compatibilityScore = 95

----------------------------------------------------------------------------
(***************************************************************************)
(* The HTTP layer (server/src/routes, server/src/middleware/auth.ts,       *)
(* server/src/controllers).  A request walks through the handlers of its   *)
(* route; every await of a handler is a point where another request may    *)
(* run.  A request is answered once: status is 0 until then.  An access    *)
(* or refresh token is the id of the user it was issued to.                *)
(***************************************************************************)

MaxReqs == 2        \* requests in flight at once

NoToken == "undefined"
NoUser == <<>>
NoRow == <<>>
NoData == <<>>

\* the row prisma.user keeps for a user
UserRow(email, password, used, limit) ==
    [email |-> email, password |-> password, tokensUsed |-> used,
     tokenLimit |-> limit, isActive |-> TRUE]

\* routes/template.ts lines 18-45, routes/user.ts lines 17-35, routes/auth.ts
\* lines 17-32: the handlers of a route
Handlers(route) ==
    CASE route = "generate" ->
           <<"authenticateToken", "userRateLimit", "checkTokenLimit",
             "validateRequest", "generateTemplate">>
      [] route \in {"saveTemplate", "updateTemplate"} ->
           <<"authenticateToken", "validateRequest", route>>
      [] route \in {"register", "login"} -> <<"validateRequest", route>>
      [] route = "refreshToken" -> <<route>>
      [] OTHER -> <<"authenticateToken", route>>

\* next(): the handler after handler h on the route
NextHandler(route, h) ==
    LET c == Handlers(route)
        k == CHOOSE j \in DOMAIN c : c[j] = h
    IN  c[k + 1]

\* a request as it arrives
Request(route, token, id, body) ==
    [route |-> route, pc |-> Handlers(route)[1], token |-> token, id |-> id,
     body |-> body, user |-> NoUser, found |-> NoRow, status |-> 0,
     sends |-> 0, generated |-> 0, data |-> NoData]

\* res.status(s).json(...) or next(createError(s, ...)): the request is answered
Answer(r, s) == [r EXCEPT !.status = s, !.pc = "answered"]

Pass(r) == [r EXCEPT !.pc = NextHandler(r.route, r.pc)]

At(i, h) == i \in DOMAIN reqs /\ reqs[i].status = 0 /\ reqs[i].pc = h

\* a lookup that takes a deactivated user as well
FindUser(id) == IF id \in DOMAIN users THEN users[id] ELSE NoRow

\* middleware/auth.ts lines 40-56: the row of an active user, or none
FindActiveUser(id) ==
    IF id \in DOMAIN users /\ users[id].isActive THEN users[id] ELSE NoRow

\* middleware/auth.ts lines 24-96
authenticateToken(i) ==
    /\ At(i, "authenticateToken")
    /\ LET r == reqs[i]
           user == IF r.token = NoToken THEN NoRow ELSE FindActiveUser(r.token)
       IN  reqs' = [reqs EXCEPT ![i] =
                IF r.token = NoToken \/ user = NoRow
                THEN Answer(r, 401)
                ELSE Pass([r EXCEPT !.user =
                        [id |-> r.token, email |-> user.email,
                         tokensUsed |-> user.tokensUsed,
                         tokenLimit |-> user.tokenLimit,
                         isActive |-> user.isActive]])]
    /\ UNCHANGED <<users, templates, requestCounts, clock, credentials>>
    /\ OptimizerUnchanged

\* a wrong limiter: the window's last request is let through once more
LenientRateLimit(counts, id, now, maxRequests, windowMs) ==
    LET userLimit == IF id \in DOMAIN counts THEN counts[id] ELSE NoRow
    IN  IF userLimit = NoRow \/ now > userLimit.resetTime
        THEN [counts |-> [u \in DOMAIN counts \cup {id} |->
                            IF u = id THEN [count |-> 1, resetTime |-> now + windowMs]
                            ELSE counts[u]],
              next |-> TRUE]
        ELSE IF userLimit.count > maxRequests
        THEN [counts |-> counts, next |-> FALSE]
        ELSE [counts |-> [counts EXCEPT ![id].count = @ + 1], next |-> TRUE]

\* middleware/auth.ts lines 203-242: the counter after a request of user id at
\* time now, and whether next() was called
userRateLimit(counts, id, now, maxRequests, windowMs) ==
    LET userLimit == IF id \in DOMAIN counts THEN counts[id] ELSE NoRow
    IN  IF userLimit = NoRow \/ now > userLimit.resetTime
        THEN [counts |-> [u \in DOMAIN counts \cup {id} |->
                            IF u = id THEN [count |-> 1, resetTime |-> now + windowMs]
                            ELSE counts[u]],
              next |-> TRUE]
        ELSE IF userLimit.count >= maxRequests
        THEN [counts |-> counts, next |-> FALSE]
        ELSE [counts |-> [counts EXCEPT ![id].count = @ + 1], next |-> TRUE]

\* middleware/auth.ts lines 167-185
checkTokenLimit(user, needed) ==
    IF user = NoUser THEN 401
    ELSE IF user.tokenLimit - user.tokensUsed < needed THEN 429
    ELSE 0

----------------------------------------------------------------------------
(* POST /api/templates/generate *)

tokensNeeded == 50
GenerateMax == 5
GenerateWindow == 60000

\* token totals a generation may report (input + output tokens)
Totals == {30, 120}

GenUsers == { [u \in {"u1"} |-> UserRow("a@x", "pw", used, 1000)] : used \in {0, 900, 960} }

GenRequests ==
    { Request("generate", t, 0, [valid |-> b]) : t \in {NoToken, "u1"}, b \in BOOLEAN }

GenInit ==
    /\ pc = "http"
    /\ run = 1
    /\ html = <<>>
    /\ tree = <<>>
    /\ issues = <<>>
    /\ optimizations = <<>>
    /\ result = <<>>
    /\ error = NoError
    /\ first = <<>>
    /\ scoreArg = <<>>
    /\ scoreOut = 0
    /\ prevScore = 0
    /\ calls = <<>>
    /\ users \in GenUsers
    /\ templates = <<>>
    /\ reqs \in [1..MaxReqs -> GenRequests]
    /\ requestCounts \in
         { <<>>, [u \in {"u1"} |-> [count |-> GenerateMax, resetTime |-> GenerateWindow]] }
    /\ clock = 0
    /\ credentials \in BOOLEAN

\* routes/template.ts line 22: userRateLimit(5, 60000)
GenerateRateLimit(i) ==
    /\ At(i, "userRateLimit")
    /\ LET r == reqs[i]
           out == userRateLimit(requestCounts, r.user.id, clock,
                                GenerateMax, GenerateWindow)
       IN  IF r.user = NoUser
           THEN /\ reqs' = [reqs EXCEPT ![i] = Answer(r, 401)]
                /\ UNCHANGED requestCounts
           ELSE /\ requestCounts' = out.counts
                /\ reqs' = [reqs EXCEPT ![i] =
                              IF out.next THEN Pass(r) ELSE Answer(r, 429)]
    /\ UNCHANGED <<users, templates, clock, credentials>>
    /\ OptimizerUnchanged

\* routes/template.ts line 23: checkTokenLimit(50)
GenerateTokenLimit(i) ==
    /\ At(i, "checkTokenLimit")
    /\ LET r == reqs[i]
           s == checkTokenLimit(r.user, tokensNeeded)
       IN  reqs' = [reqs EXCEPT ![i] = IF s = 0 THEN Pass(r) ELSE Answer(r, s)]
    /\ UNCHANGED <<users, templates, requestCounts, clock, credentials>>
    /\ OptimizerUnchanged

\* utils/validation.ts lines 279-307: a body the schema rejects is answered 400
validateRequest(i) ==
    /\ At(i, "validateRequest")
    /\ LET r == reqs[i]
       IN  reqs' = [reqs EXCEPT ![i] = IF r.body.valid THEN Pass(r) ELSE Answer(r, 400)]
    /\ UNCHANGED <<users, templates, requestCounts, clock, credentials>>
    /\ OptimizerUnchanged

\* controllers/templateController.ts lines 15-43: what the handler answers
\* before it calls the model (0: it goes on)
Refusal(user, configured) ==
    IF user = NoUser THEN 401
    ELSE IF ~configured THEN 503
    ELSE IF user.tokenLimit - user.tokensUsed < tokensNeeded THEN 429
    ELSE 0

\* controllers/templateController.ts lines 9-56: up to the model call
generateTemplate(i) ==
    /\ At(i, "generateTemplate")
    /\ LET r == reqs[i]
           s == Refusal(r.user, credentials)
       IN  reqs' = [reqs EXCEPT ![i] =
                      IF s = 0 THEN [r EXCEPT !.pc = "generateEmailTemplate"]
                      ELSE Answer(r, s)]
    /\ UNCHANGED <<users, templates, requestCounts, clock, credentials>>
    /\ OptimizerUnchanged

\* a service that sends the request again when the model call failed
RetriedSends(outcome) ==
    IF outcome = "unavailable" THEN 0 ELSE IF outcome = "send failed" THEN 2 ELSE 1

\* services/aiService.ts lines 48-143: the requests the service sends to the
\* model for one generation that ends as outcome says
Sends(outcome) == IF outcome = "unavailable" THEN 0 ELSE 1

Outcomes == {"unavailable", "send failed", "optimizer failed", "generated"}

\* services/aiService.ts lines 48-143, controllers/templateController.ts
\* lines 59-75 and 117-119: the model call and the optimizer; a failure goes
\* to next(error)
generateEmailTemplate(i) ==
    /\ At(i, "generateEmailTemplate")
    /\ \E outcome \in Outcomes, total \in Totals :
         LET r == [reqs[i] EXCEPT !.sends = @ + Sends(outcome)]
         IN  reqs' = [reqs EXCEPT ![i] =
                        IF outcome = "generated"
                        THEN [r EXCEPT !.generated = total, !.pc = "update"]
                        ELSE Answer(r, 500)]
    /\ UNCHANGED <<users, templates, requestCounts, clock, credentials>>
    /\ OptimizerUnchanged

\* controllers/templateController.ts lines 77-83: tokensUsed: { increment }
Charged(row, total) == [row EXCEPT !.tokensUsed = @ + total]

\* controllers/templateController.ts lines 77-116: the quota update and the reply
ChargeAndReply(i) ==
    /\ At(i, "update")
    /\ LET r == reqs[i]
       IN  /\ users' = [users EXCEPT ![r.user.id] = Charged(@, r.generated)]
           /\ reqs' = [reqs EXCEPT ![i] = [Answer(r, 200) EXCEPT !.data = "template"]]
    /\ UNCHANGED <<templates, requestCounts, clock, credentials>>
    /\ OptimizerUnchanged

GenNext ==
    \E i \in 1..MaxReqs :
        \/ authenticateToken(i)
        \/ GenerateRateLimit(i)
        \/ GenerateTokenLimit(i)
        \/ validateRequest(i)
        \/ generateTemplate(i)
        \/ generateEmailTemplate(i)
        \/ ChargeAndReply(i)

GenSpec == GenInit /\ [][GenNext]_vars

----------------------------------------------------------------------------
(* Claims about POST /api/templates/generate *)

Failed(r) == r.status \notin {0, 200}

Remaining(user) == user.tokenLimit - user.tokensUsed

\* a request that was refused for its quota: authenticated, fewer than 50 left
OutOfTokens(r) ==
    r.status = 429 /\ r.user # NoUser /\ Remaining(r.user) < tokensNeeded

C26_QuotaInvariant ==
    \A u \in DOMAIN users : users[u].tokensUsed <= users[u].tokenLimit

----------------------------------------------------------------------------
(* The template routes (controllers/templateController.ts).  A template    *)
(* row carries its versions, oldest first, and its tags; a version's id is *)
(* its place in that list.                                                 *)

Version(number, content) ==
    [version |-> number, htmlContent |-> content, isActive |-> TRUE]

\* controllers/templateController.ts lines 148-164: the row template.create stores
TemplateRow(owner, content) ==
    [userId |-> owner, htmlContent |-> content, isFavorite |-> FALSE,
     isArchived |-> FALSE, usageCount |-> 0, tags |-> {}, versions |-> <<>>]

NoTags == {}

\* what saveTemplate leaves behind: lines 148-190
Saved(owner, content, tags) ==
    [TemplateRow(owner, content) EXCEPT
        !.tags = tags,
        !.versions = <<Version(1, content)>>]

Owners == {"u1", "u2"}

TemplateUsers == [u \in Owners |-> UserRow(u, "pw", 0, 1000)]

\* a request body the schema accepts; tagged: the body has a tags array
Body(content, tagged, tags) ==
    [valid |-> TRUE, htmlContent |-> content, tagged |-> tagged, tags |-> tags]

NoBody == [valid |-> TRUE]

\* the requests of the template routes; template 1 exists, owned by u1
TemplateRequests ==
    UNION { { Request("saveTemplate", u, 0, Body("A", FALSE, NoTags)),
              Request("getUserTemplates", u, 0, NoBody),
              Request("getTemplate", u, 1, NoBody),
              Request("updateTemplate", u, 1, Body("A", FALSE, NoTags)),
              Request("updateTemplate", u, 1, Body("B", FALSE, NoTags)),
              Request("updateTemplate", u, 1, Body("B", TRUE, {"n"})),
              Request("deleteTemplate", u, 1, NoBody),
              Request("toggleFavorite", u, 1, NoBody) } : u \in Owners }

\* an order on the requests, to list each group of requests once
Rank(r) ==
    LET route == CHOOSE k \in 1..6 :
                   <<"saveTemplate", "getUserTemplates", "getTemplate",
                     "updateTemplate", "deleteTemplate", "toggleFavorite">>[k] = r.route
        content == IF r.route = "updateTemplate" /\ r.body.htmlContent = "B"
                   THEN IF r.body.tagged THEN 2 ELSE 1
                   ELSE 0
    IN  (IF r.token = "u1" THEN 0 ELSE 24) + 3 * route + content

TemplateInit ==
    /\ pc = "http"
    /\ run = 1
    /\ html = <<>>
    /\ tree = <<>>
    /\ issues = <<>>
    /\ optimizations = <<>>
    /\ result = <<>>
    /\ error = NoError
    /\ first = <<>>
    /\ scoreArg = <<>>
    /\ scoreOut = 0
    /\ prevScore = 0
    /\ calls = <<>>
    /\ users = TemplateUsers
    /\ templates = <<Saved("u1", "A", {"t"})>>
    /\ reqs \in { q \in [1..MaxReqs -> TemplateRequests] :
                    \A i \in 1..(MaxReqs - 1) : Rank(q[i]) <= Rank(q[i + 1]) }
    /\ requestCounts = <<>>
    /\ clock = 0
    /\ credentials = FALSE

ReqsOnly ==
    /\ UNCHANGED <<users, templates, requestCounts, clock, credentials>>
    /\ OptimizerUnchanged

TemplatesOnly ==
    /\ UNCHANGED <<users, requestCounts, clock, credentials>>
    /\ OptimizerUnchanged

\* a lookup by id alone
FindById(id, userId) == IF id \in DOMAIN templates THEN id ELSE 0

\* prisma.template.findFirst({ where: { id, userId } }): the id, or 0
FindOwn(id, userId) ==
    IF id \in DOMAIN templates /\ templates[id].userId = userId THEN id ELSE 0

\* include: { versions: { where: { isActive: true }, orderBy: { version: 'desc' },
\* take: 1 } }: the ids the one included version may have (none: {0})
TopActive(row) ==
    LET active == { k \in DOMAIN row.versions : row.versions[k].isActive }
        top == { k \in active :
                   \A m \in active : row.versions[m].version <= row.versions[k].version }
    IN  IF active = {} THEN {0} ELSE top

\* lines 148-164 of saveTemplate
saveTemplate(i) ==
    /\ At(i, "saveTemplate")
    /\ LET r == reqs[i]
       IN  IF r.user = NoUser
           THEN reqs' = [reqs EXCEPT ![i] = Answer(r, 401)] /\ UNCHANGED templates
           ELSE /\ templates' = Append(templates, TemplateRow(r.user.id, r.body.htmlContent))
                /\ reqs' = [reqs EXCEPT ![i] =
                              [r EXCEPT !.id = Len(templates) + 1, !.pc = "save tags"]]
    /\ TemplatesOnly

\* lines 167-177 of saveTemplate
SaveTags(i) ==
    /\ At(i, "save tags")
    /\ LET r == reqs[i]
       IN  /\ templates' = IF ~r.body.tagged \/ r.body.tags = {} THEN templates
                           ELSE [templates EXCEPT ![r.id].tags = @ \cup r.body.tags]
           /\ reqs' = [reqs EXCEPT ![i].pc = "save version"]
    /\ TemplatesOnly

\* lines 180-190 of saveTemplate
SaveVersion(i) ==
    /\ At(i, "save version")
    /\ LET r == reqs[i]
       IN  /\ templates' = [templates EXCEPT ![r.id].versions =
                               Append(@, Version(1, r.body.htmlContent))]
           /\ reqs' = [reqs EXCEPT ![i].pc = "save reply"]
    /\ TemplatesOnly

\* lines 200-217 of saveTemplate
SaveReply(i) ==
    /\ At(i, "save reply")
    /\ reqs' = [reqs EXCEPT ![i] = [Answer(reqs[i], 201) EXCEPT !.data = {reqs[i].id}]]
    /\ ReqsOnly

\* lines 224-319: the ids of the templates the list shows
Listed(userId) ==
    { id \in DOMAIN templates :
        templates[id].userId = userId /\ ~templates[id].isArchived }

getUserTemplates(i) ==
    /\ At(i, "getUserTemplates")
    /\ LET r == reqs[i]
       IN  reqs' = [reqs EXCEPT ![i] =
                      IF r.user = NoUser THEN Answer(r, 401)
                      ELSE [Answer(r, 200) EXCEPT !.data = Listed(r.user.id)]]
    /\ ReqsOnly

\* the ids the included version may have when request r looks its template up
Tops(r) ==
    IF r.user = NoUser \/ FindOwn(r.id, r.user.id) = 0 THEN {0}
    ELSE TopActive(templates[r.id])

\* the first lines of getTemplate (322-356), updateTemplate (374-415),
\* deleteTemplate (510-532) and toggleFavorite (559-581): the template is
\* looked up by id and owner
Lookup(r, top, then) ==
    IF r.user = NoUser THEN Answer(r, 401)
    ELSE IF FindOwn(r.id, r.user.id) = 0 THEN Answer(r, 404)
    ELSE [r EXCEPT !.pc = then,
                   !.found = [htmlContent |-> templates[r.id].htmlContent,
                              isFavorite |-> templates[r.id].isFavorite,
                              top |-> top]]

\* lines 322-356 of getTemplate
getTemplate(i) ==
    /\ At(i, "getTemplate")
    /\ \E top \in Tops(reqs[i]) :
         reqs' = [reqs EXCEPT ![i] = Lookup(reqs[i], top, "count use")]
    /\ ReqsOnly

\* lines 358-367 of getTemplate
CountUse(i) ==
    /\ At(i, "count use")
    /\ templates' = [templates EXCEPT ![reqs[i].id].usageCount = @ + 1]
    /\ reqs' = [reqs EXCEPT ![i] = [Answer(reqs[i], 200) EXCEPT !.data = {reqs[i].id}]]
    /\ TemplatesOnly

\* lines 510-532 of deleteTemplate
deleteTemplate(i) ==
    /\ At(i, "deleteTemplate")
    /\ \E top \in Tops(reqs[i]) :
         reqs' = [reqs EXCEPT ![i] = Lookup(reqs[i], top, "archive")]
    /\ ReqsOnly

\* lines 535-552 of deleteTemplate
Archive(i) ==
    /\ At(i, "archive")
    /\ templates' = [templates EXCEPT ![reqs[i].id].isArchived = TRUE]
    /\ reqs' = [reqs EXCEPT ![i] = Answer(reqs[i], 200)]
    /\ TemplatesOnly

\* lines 559-581 of toggleFavorite
toggleFavorite(i) ==
    /\ At(i, "toggleFavorite")
    /\ \E top \in Tops(reqs[i]) :
         reqs' = [reqs EXCEPT ![i] = Lookup(reqs[i], top, "toggle")]
    /\ ReqsOnly

\* lines 584-601 of toggleFavorite
Toggle(i) ==
    /\ At(i, "toggle")
    /\ templates' = [templates EXCEPT ![reqs[i].id].isFavorite = ~reqs[i].found.isFavorite]
    /\ reqs' = [reqs EXCEPT ![i] = [Answer(reqs[i], 200) EXCEPT !.data = {reqs[i].id}]]
    /\ TemplatesOnly

\* lines 374-415 of updateTemplate
updateTemplate(i) ==
    /\ At(i, "updateTemplate")
    /\ \E top \in Tops(reqs[i]) :
         reqs' = [reqs EXCEPT ![i] = Lookup(reqs[i], top, "update template")]
    /\ ReqsOnly

\* line 434 of updateTemplate: whether the update makes a new version
NewVersion(body, found) == body.htmlContent # found.htmlContent

\* lines 460-477 and 486-503: what follows the versions
AfterVersions(body) == IF body.tagged THEN "delete tags" ELSE "update reply"

\* lines 418-438 of updateTemplate
UpdateRow(i) ==
    /\ At(i, "update template")
    /\ LET r == reqs[i]
       IN  /\ templates' = [templates EXCEPT ![r.id].htmlContent = r.body.htmlContent]
           /\ reqs' = [reqs EXCEPT ![i].pc =
                         IF ~NewVersion(r.body, r.found) THEN AfterVersions(r.body)
                         ELSE IF r.found.top = 0 THEN "create version"
                         ELSE "deactivate"]
    /\ TemplatesOnly

\* lines 438-443 of updateTemplate
Deactivate(i) ==
    /\ At(i, "deactivate")
    /\ templates' = [templates EXCEPT
                       ![reqs[i].id].versions[reqs[i].found.top].isActive = FALSE]
    /\ reqs' = [reqs EXCEPT ![i].pc = "create version"]
    /\ TemplatesOnly

\* line 435 of updateTemplate
CurrentVersion(row, found) ==
    IF found.top = 0 THEN 0 ELSE row.versions[found.top].version

\* lines 446-456 of updateTemplate.  The storage schema is not part of the
\* sources: a second version with a number the template already has is
\* either stored or rejected by the database (the error goes to next).
CreateVersion(i) ==
    /\ At(i, "create version")
    /\ LET r == reqs[i]
           row == templates[r.id]
           number == CurrentVersion(row, r.found) + 1
           taken == \E k \in DOMAIN row.versions : row.versions[k].version = number
       IN  \E stored \in IF taken THEN BOOLEAN ELSE {TRUE} :
              IF stored
              THEN /\ templates' = [templates EXCEPT ![r.id].versions =
                                      Append(@, Version(number, r.body.htmlContent))]
                   /\ reqs' = [reqs EXCEPT ![i].pc = AfterVersions(r.body)]
              ELSE /\ reqs' = [reqs EXCEPT ![i] = Answer(r, 500)]
                   /\ UNCHANGED templates
    /\ TemplatesOnly

\* lines 462-464 of updateTemplate
DeleteTags(i) ==
    /\ At(i, "delete tags")
    /\ templates' = [templates EXCEPT ![reqs[i].id].tags = {}]
    /\ reqs' = [reqs EXCEPT ![i].pc =
                  IF reqs[i].body.tags = {} THEN "update reply" ELSE "create tags"]
    /\ TemplatesOnly

\* lines 467-476 of updateTemplate
CreateTags(i) ==
    /\ At(i, "create tags")
    /\ templates' = [templates EXCEPT ![reqs[i].id].tags = @ \cup reqs[i].body.tags]
    /\ reqs' = [reqs EXCEPT ![i].pc = "update reply"]
    /\ TemplatesOnly

\* lines 486-503 of updateTemplate
UpdateReply(i) ==
    /\ At(i, "update reply")
    /\ reqs' = [reqs EXCEPT ![i] = [Answer(reqs[i], 200) EXCEPT !.data = {reqs[i].id}]]
    /\ ReqsOnly

TemplateNext ==
    \E i \in 1..MaxReqs :
        \/ authenticateToken(i)
        \/ validateRequest(i)
        \/ saveTemplate(i)
        \/ SaveTags(i)
        \/ SaveVersion(i)
        \/ SaveReply(i)
        \/ getUserTemplates(i)
        \/ getTemplate(i)
        \/ CountUse(i)
        \/ updateTemplate(i)
        \/ UpdateRow(i)
        \/ Deactivate(i)
        \/ CreateVersion(i)
        \/ DeleteTags(i)
        \/ CreateTags(i)
        \/ UpdateReply(i)
        \/ deleteTemplate(i)
        \/ Archive(i)
        \/ toggleFavorite(i)
        \/ Toggle(i)

TemplateSpec == TemplateInit /\ [][TemplateNext]_vars

----------------------------------------------------------------------------
(* Accounts: register, login, refreshToken (controllers/authController.ts), *)
(* checkAuth behind authenticateToken, and deleteAccount                    *)
(* (controllers/templateController.ts lines 933-991).  An email is a list   *)
(* of its parts, so that the email of a deleted account is the old one      *)
(* with 'deleted' and the time in front.                                    *)

MaxSessions == 3    \* requests in flight at once on the account routes

UserIds == <<"u1", "u2", "u3", "u4", "u5">>

OldEmail == <<"a@x">>
OldPassword == "pw"

Credentials(email, password) ==
    [valid |-> TRUE, email |-> email, password |-> password]

Confirmation(password) == [valid |-> TRUE, password |-> password]

Refresh(token) == [valid |-> TRUE, refreshToken |-> token]

\* the requests of the account routes; u1 registered with OldEmail and
\* OldPassword and holds an access token and a refresh token
AccountRequests ==
    <<Request("deleteAccount", "u1", 0, Confirmation(OldPassword)),
      Request("deleteAccount", "u1", 0, Confirmation("bad")),
      Request("checkAuth", "u1", 0, NoBody),
      Request("login", NoToken, 0, Credentials(OldEmail, OldPassword)),
      Request("login", NoToken, 0, Credentials(OldEmail, "bad")),
      Request("refreshToken", NoToken, 0, Refresh("u1")),
      Request("refreshToken", NoToken, 0, Refresh(NoToken)),
      Request("register", NoToken, 0, Credentials(OldEmail, OldPassword))>>

AccountInit ==
    /\ pc = "http"
    /\ run = 1
    /\ html = <<>>
    /\ tree = <<>>
    /\ issues = <<>>
    /\ optimizations = <<>>
    /\ result = <<>>
    /\ error = NoError
    /\ first = <<>>
    /\ scoreArg = <<>>
    /\ scoreOut = 0
    /\ prevScore = 0
    /\ calls = <<>>
    /\ users = [u \in {"u1"} |-> UserRow(OldEmail, OldPassword, 0, 100)]
    /\ templates = <<>>
    /\ \E order \in { q \in [1..MaxSessions -> DOMAIN AccountRequests] :
                        \A i \in 1..(MaxSessions - 1) : q[i] <= q[i + 1] } :
          reqs = [i \in 1..MaxSessions |-> AccountRequests[order[i]]]
    /\ requestCounts = <<>>
    /\ clock = 0
    /\ credentials = FALSE

UsersOnly ==
    /\ UNCHANGED <<templates, requestCounts, clock, credentials>>
    /\ OptimizerUnchanged

\* prisma.user.findUnique({ where: { email, isActive: true } }): the id, or NoToken
FindByEmail(email) ==
    IF \E u \in DOMAIN users : users[u].email = email /\ users[u].isActive
    THEN CHOOSE u \in DOMAIN users : users[u].email = email /\ users[u].isActive
    ELSE NoToken

\* controllers/authController.ts lines 331-357
checkAuth(i) ==
    /\ At(i, "checkAuth")
    /\ LET r == reqs[i]
       IN  reqs' = [reqs EXCEPT ![i] =
                      IF r.user = NoUser THEN Answer(r, 401)
                      ELSE [Answer(r, 200) EXCEPT !.data = [user |-> r.user.id]]]
    /\ ReqsOnly

\* controllers/authController.ts lines 113-143: the user is looked up by email
login(i) ==
    /\ At(i, "login")
    /\ LET r == reqs[i]
           id == FindByEmail(r.body.email)
       IN  reqs' = [reqs EXCEPT ![i] =
                      IF id = NoToken THEN Answer(r, 401)
                      ELSE [r EXCEPT !.pc = "compare",
                                     !.found = [id |-> id, password |-> users[id].password]]]
    /\ ReqsOnly

\* controllers/authController.ts lines 145-190: the password is compared and
\* the tokens are issued
LoginReply(i) ==
    /\ At(i, "compare")
    /\ LET r == reqs[i]
       IN  reqs' = [reqs EXCEPT ![i] =
                      IF r.body.password # r.found.password THEN Answer(r, 401)
                      ELSE [Answer(r, 200) EXCEPT
                              !.data = [user |-> r.found.id,
                                        accessToken |-> r.found.id,
                                        refreshToken |-> r.found.id]]]
    /\ ReqsOnly

\* controllers/authController.ts lines 196-250
refreshToken(i) ==
    /\ At(i, "refreshToken")
    /\ LET r == reqs[i]
           token == r.body.refreshToken
       IN  reqs' = [reqs EXCEPT ![i] =
                      IF token = NoToken THEN Answer(r, 400)
                      ELSE IF FindActiveUser(token) = NoRow THEN Answer(r, 401)
                      ELSE [Answer(r, 200) EXCEPT
                              !.data = [user |-> token, accessToken |-> token]]]
    /\ ReqsOnly

\* controllers/authController.ts lines 16-42: the email must be free
register(i) ==
    /\ At(i, "register")
    /\ LET r == reqs[i]
       IN  reqs' = [reqs EXCEPT ![i] =
                      IF \E u \in DOMAIN users : users[u].email = r.body.email
                      THEN Answer(r, 409)
                      ELSE [r EXCEPT !.pc = "create user"]]
    /\ ReqsOnly

\* controllers/authController.ts lines 45-110: the user is created and gets
\* tokens; the email column is unique, a second row with it is rejected
CreateUser(i) ==
    /\ At(i, "create user")
    /\ LET r == reqs[i]
           id == UserIds[Cardinality(DOMAIN users) + 1]
       IN  IF \E u \in DOMAIN users : users[u].email = r.body.email
           THEN reqs' = [reqs EXCEPT ![i] = Answer(r, 500)] /\ UNCHANGED users
           ELSE /\ users' = [u \in DOMAIN users \cup {id} |->
                               IF u = id
                               THEN UserRow(r.body.email, r.body.password, 0, 100)
                               ELSE users[u]]
                /\ reqs' = [reqs EXCEPT ![i] =
                              [Answer(r, 201) EXCEPT
                                 !.data = [user |-> id, accessToken |-> id,
                                           refreshToken |-> id]]]
    /\ UsersOnly

\* lines 933-957 of controllers/templateController.ts: the user is read
deleteAccount(i) ==
    /\ At(i, "deleteAccount")
    /\ LET r == reqs[i]
       IN  reqs' = [reqs EXCEPT ![i] =
                      IF r.user = NoUser THEN Answer(r, 401)
                      ELSE IF r.user.id \notin DOMAIN users THEN Answer(r, 404)
                      ELSE [r EXCEPT !.pc = "deactivate",
                                     !.found = [id |-> r.user.id,
                                                email |-> users[r.user.id].email,
                                                password |-> users[r.user.id].password]]]
    /\ ReqsOnly

\* lines 967-976: the row of a deleted account
Deactivated(row, email, now) ==
    [row EXCEPT !.isActive = FALSE, !.email = <<"deleted", now>> \o email]

\* lines 959-987 of controllers/templateController.ts: the password is
\* compared and the account deactivated
DeactivateAccount(i) ==
    /\ At(i, "deactivate")
    /\ LET r == reqs[i]
       IN  IF r.body.password # r.found.password
           THEN reqs' = [reqs EXCEPT ![i] = Answer(r, 400)] /\ UNCHANGED users
           ELSE /\ users' = [users EXCEPT ![r.found.id] =
                               Deactivated(@, r.found.email, clock)]
                /\ reqs' = [reqs EXCEPT ![i] = Answer(r, 200)]
    /\ UsersOnly

AccountNext ==
    \E i \in 1..MaxSessions :
        \/ authenticateToken(i)
        \/ validateRequest(i)
        \/ checkAuth(i)
        \/ login(i)
        \/ LoginReply(i)
        \/ refreshToken(i)
        \/ register(i)
        \/ CreateUser(i)
        \/ deleteAccount(i)
        \/ DeactivateAccount(i)

AccountSpec == AccountInit /\ [][AccountNext]_vars

----------------------------------------------------------------------------
(* userRateLimit(maxRequests, windowMs) on its own: requests of two users   *)
(* arrive while time passes.  The middleware has no await: a request is     *)
(* counted and passed on, or answered, in one step.  reqs is the list of    *)
(* the requests that arrived.                                               *)

LimitMax == 2       \* maxRequests of the limiter
LimitWindow == 2    \* windowMs of the limiter
MaxClock == 3       \* the last instant a request arrives at
MaxArrivals == 5    \* requests that arrive in all

Callers == {"u1", "u2"}

\* a request after the limiter: passed to the next handler, or answered
Arrival(user, now, status) ==
    [user |-> user, at |-> now, status |-> status,
     pc |-> IF status = 0 THEN "next" ELSE "answered"]

RateInit ==
    /\ pc = "http"
    /\ run = 1
    /\ html = <<>>
    /\ tree = <<>>
    /\ issues = <<>>
    /\ optimizations = <<>>
    /\ result = <<>>
    /\ error = NoError
    /\ first = <<>>
    /\ scoreArg = <<>>
    /\ scoreOut = 0
    /\ prevScore = 0
    /\ calls = <<>>
    /\ users = <<>>
    /\ templates = <<>>
    /\ reqs = <<>>
    /\ requestCounts = <<>>
    /\ clock = 0
    /\ credentials = FALSE

\* middleware/auth.ts lines 209-241: the middleware userRateLimit returns
Limit(user) ==
    /\ Len(reqs) < MaxArrivals
    /\ LET out == userRateLimit(requestCounts, user.id, clock, LimitMax, LimitWindow)
       IN  IF user = NoUser
           THEN /\ reqs' = Append(reqs, Arrival(user, clock, 401))
                /\ UNCHANGED requestCounts
           ELSE /\ requestCounts' = out.counts
                /\ reqs' = Append(reqs, Arrival(user, clock, IF out.next THEN 0 ELSE 429))
    /\ UNCHANGED <<users, templates, clock, credentials>>
    /\ OptimizerUnchanged

\* Date.now() moves on
Tick ==
    /\ clock < MaxClock
    /\ clock' = clock + 1
    /\ UNCHANGED <<users, templates, reqs, requestCounts, credentials>>
    /\ OptimizerUnchanged

RateNext ==
    \/ \E u \in Callers : Limit([id |-> u])
    \/ Limit(NoUser)
    \/ Tick

RateSpec == RateInit /\ [][RateNext]_vars

----------------------------------------------------------------------------
(* Claims about userRateLimit *)

\* the earlier requests of the user of request k
Earlier(k) == { j \in 1..(k - 1) : reqs[j].user = reqs[k].user }

Latest(S) == CHOOSE j \in S : \A m \in S : m <= j

\* the request that opened the window request k falls in, told from the
\* arrival times alone: a user's first request opens a window, and so does
\* the first one that arrives after the resetTime of the window before
RECURSIVE Opener(_)
Opener(k) ==
    IF Earlier(k) = {} THEN k
    ELSE LET w == Opener(Latest(Earlier(k)))
         IN  IF reqs[k].at > reqs[w].at + LimitWindow THEN k ELSE w

\* how many requests of its window have arrived up to request k
InWindow(k) == Cardinality({ j \in Earlier(k) \cup {k} : Opener(j) = Opener(k) })

Limited == { k \in DOMAIN reqs : reqs[k].user # NoUser }

LastOf(u) == Latest({ k \in Limited : reqs[k].user.id = u })

\* C27: userRateLimit is a per-user fixed window: of the requests of a window
\* the first maxRequests are passed to the next handler and every further one
\* is answered 429 and leaves the counter as it is; the first request after
\* resetTime opens a new window with count 1; a request never changes the
\* counter of another user.
C27_FixedWindow ==
    /\ [](/\ \A k \in Limited :
                IF InWindow(k) <= LimitMax
                THEN reqs[k].pc = "next" /\ reqs[k].status = 0
                ELSE reqs[k].pc = "answered" /\ reqs[k].status = 429
          /\ DOMAIN requestCounts = { reqs[k].user.id : k \in Limited }
          /\ \A u \in DOMAIN requestCounts :
                LET k == LastOf(u)
                IN  /\ requestCounts[u].resetTime = reqs[Opener(k)].at + LimitWindow
                    /\ requestCounts[u].count =
                         IF InWindow(k) <= LimitMax THEN InWindow(k) ELSE LimitMax)
    /\ [][Len(reqs') > Len(reqs) =>
            LET r == reqs'[Len(reqs')]
            IN  /\ r.status # 0 => requestCounts' = requestCounts
                /\ \A v \in Callers :
                      (r.user = NoUser \/ r.user.id # v) =>
                         /\ v \in DOMAIN requestCounts' <=> v \in DOMAIN requestCounts
                         /\ v \in DOMAIN requestCounts => requestCounts'[v] = requestCounts[v]
                /\ (r.user # NoUser /\ r.user.id \in DOMAIN requestCounts
                      /\ clock > requestCounts[r.user.id].resetTime) =>
                         /\ r.pc = "next"
                         /\ requestCounts'[r.user.id] =
                              [count |-> 1, resetTime |-> clock + LimitWindow]]_vars

\* a user used up a window, was refused, and was let through again after the
\* window's resetTime, while the other user's first request was counted
C27_Witness ==
    /\ Len(reqs) = MaxArrivals
    /\ \E k \in Limited :
         /\ reqs[k].user.id = "u1"
         /\ reqs[k].status = 429
         /\ \E j \in Limited :
              j > k /\ reqs[j].user.id = "u1" /\ reqs[j].pc = "next" /\ Opener(j) = j
    /\ "u2" \in DOMAIN requestCounts
    /\ requestCounts["u2"].count = 1

----------------------------------------------------------------------------
(* Claims about the template routes *)

\* no request is between its first and its last statement
Quiet == \A i \in DOMAIN reqs : reqs[i].status # 0

Numbers(row) == { row.versions[k].version : k \in DOMAIN row.versions }

ActiveVersions(row) == { k \in DOMAIN row.versions : row.versions[k].isActive }

\* exactly one active version, the one with the highest number, and the
\* numbers are 1, 2, 3, ... without duplicates
OneActiveVersion(row) ==
    /\ Cardinality(ActiveVersions(row)) = 1
    /\ \A k \in ActiveVersions(row) : row.versions[k].version = Len(row.versions)
    /\ Numbers(row) = 1..Len(row.versions)
    /\ Cardinality(Numbers(row)) = Len(row.versions)

\* C28: template version invariant: once saveTemplate and the updateTemplate
\* calls on a template have returned, however they were interleaved, the
\* template has exactly one active version, it has the highest number, the
\* numbers are 1, 2, 3, ... without duplicates; and a version is added only by
\* an update whose htmlContent differs from the stored one it looked up.
C28_VersionInvariant ==
    /\ [](Quiet => \A id \in DOMAIN templates : OneActiveVersion(templates[id]))
    /\ [][\A i \in DOMAIN reqs :
            (reqs[i].route = "updateTemplate" /\ reqs[i].pc = "create version"
               /\ reqs'[i] # reqs[i] /\ templates' # templates)
            => reqs[i].body.htmlContent # reqs[i].found.htmlContent]_vars

ById == {"getTemplate", "updateTemplate", "deleteTemplate", "toggleFavorite"}

\* request r names a template that belongs to somebody else
Foreign(r) ==
    /\ r.route \in ById
    /\ r.id \in DOMAIN templates
    /\ templates[r.id].userId # r.token

\* C29: ownership isolation: getTemplate, updateTemplate, deleteTemplate and
\* toggleFavorite called on a template of another user answer 404 and change
\* nothing of the template, its versions or its tags, usageCount included;
\* deleteTemplate only sets isArchived and removes no record; and the list
\* getUserTemplates answers with holds no archived template.
C29_OwnershipIsolation ==
    /\ [](\A i \in DOMAIN reqs :
            Foreign(reqs[i]) /\ reqs[i].status # 0 => reqs[i].status = 404)
    /\ [][\A i \in DOMAIN reqs :
            reqs'[i] # reqs[i] =>
               /\ Foreign(reqs[i]) => templates' = templates
               /\ reqs[i].route = "deleteTemplate" =>
                     \/ templates' = templates
                     \/ templates' = [templates EXCEPT ![reqs[i].id].isArchived = TRUE]
               /\ Len(templates') >= Len(templates)
               /\ (reqs[i].route = "getUserTemplates" /\ reqs'[i].status = 200) =>
                     \A id \in reqs'[i].data :
                        /\ ~templates[id].isArchived
                        /\ templates[id].userId = reqs[i].token]_vars

\* the owner archived the template, the other user's request for it was
\* answered 404, and nobody's use of it was counted
C29_Witness ==
    /\ \E i \in DOMAIN reqs :
         /\ reqs[i].route = "deleteTemplate"
         /\ reqs[i].token = "u1"
         /\ reqs[i].status = 200
    /\ \E i \in DOMAIN reqs :
         /\ reqs[i].route = "getTemplate"
         /\ reqs[i].token = "u2"
         /\ reqs[i].status = 404
    /\ templates[1].isArchived
    /\ templates[1].usageCount = 0
    /\ Len(templates) = 1

----------------------------------------------------------------------------
(* Claims about the accounts *)

\* deleteAccount has succeeded for user u
Deleted(u) ==
    \E j \in DOMAIN reqs :
       reqs[j].route = "deleteAccount" /\ reqs[j].token = u /\ reqs[j].status = 200

\* request i takes its step at handler h
Steps(i, h) == reqs[i].status = 0 /\ reqs[i].pc = h /\ reqs'[i] # reqs[i]

\* the old access token and the old refresh token are refused with 401 once
\* the account is deleted, and the request never carries req.user
TokensRefused(i) ==
    /\ Steps(i, "authenticateToken") /\ reqs[i].token = "u1"
         => reqs'[i].status = 401 /\ reqs'[i].user = NoUser
    /\ Steps(i, "refreshToken") /\ reqs[i].body.refreshToken = "u1"
         => reqs'[i].status = 401

OldLogin(i) ==
    /\ Steps(i, "login")
    /\ reqs[i].body.email = OldEmail
    /\ reqs[i].body.password = OldPassword

\* C30: account deactivation is final for every credential: once deleteAccount
\* has succeeded for a user, every later authenticateToken with the old access
\* token, every login with the old email and password and every refreshToken
\* with the old refresh token is rejected with 401, and no later request is
\* handled with req.user set to that user.
C30_DeactivationFinal ==
    [][Deleted("u1") =>
         \A i \in DOMAIN reqs :
            /\ TokensRefused(i)
            /\ OldLogin(i) => reqs'[i].status = 401]_vars

\* C30 as it holds: the old tokens are refused with 401 and no later request
\* carries the deleted user; a login with the old email and password is
\* refused with 401 until the email is registered again, and then it is a
\* login of the new account, never of the deleted one.
C30_DeactivationFinalForTheAccount ==
    [][Deleted("u1") =>
         \A i \in DOMAIN reqs :
            /\ TokensRefused(i)
            /\ OldLogin(i) =>
                  IF FindByEmail(OldEmail) = NoToken
                  THEN reqs'[i].status = 401
                  ELSE reqs'[i].found.id # "u1"]_vars

\* the account is deleted, and afterwards the old access token and a login
\* with the old email and password were both refused
C30_Witness ==
    /\ Deleted("u1")
    /\ ~users["u1"].isActive
    /\ \E i \in DOMAIN reqs :
         reqs[i].route = "checkAuth" /\ reqs[i].token = "u1" /\ reqs[i].status = 401
    /\ \E i \in DOMAIN reqs :
         /\ reqs[i].route = "login"
         /\ reqs[i].body.password = OldPassword
         /\ reqs[i].status = 401

====
